---------------------------- MODULE Spec2Model ----------------------------
(***************************************************************************)
(* Verification model of castep_dos_rust: the binary record codec          *)
(* (helper.rs), the .pdos_weights / .pdos_bin parser                       *)
(* (pdos_weights_parser.rs) and the .bands text parser (bands/parser.rs).  *)
(*                                                                         *)
(* Three specifications share the module:                                  *)
(*   SpecCodec   - parse_record / parse_vec applied to framed byte streams *)
(*   SpecWeights - parse_pdos_weight_file run step by step on a byte file  *)
(*   SpecBands   - BandsParser::parse_bands_file run stage by stage        *)
(* Each specification leaves the variables of the other two untouched.     *)
(***************************************************************************)
EXTENDS Integers, Sequences, FiniteSets, TLC

VARIABLES
    \* ---- SpecCodec
    cstream,      \* the byte stream handed to the codec
    cpos,         \* cursor: number of bytes consumed so far
    cplan,        \* the payloads that were framed into cstream, in order
    cfault,       \* how the stream was damaged: [kind, rec, val]
    cout,         \* the payloads parse_record has returned so far
    cstatus,      \* "reading" | "ok" | "error"
    cerr,         \* the HelperError variant of the failed read, or "none"
    \* ---- SpecWeights
    input,        \* the bytes of the .pdos_weights / .pdos_bin file
    gen,          \* the parameters the file was generated from
    pos,          \* cursor into input
    pc,           \* position inside parse_pdos_weight_file
    versionOk,    \* _version.is_ok()
    headerStart,  \* cursor at which parse_pdos_weight was entered (-1: not yet)
    header,       \* the parsed Header
    kpoints,      \* Vec<WeightsPerKPoint> collected so far
    curKpoint,    \* the WeightsPerKPoint being read by parse_kpoint
    curSpin,      \* the WeightsPerSpin being read by parse_weight_per_spin
    failed,       \* the stage whose `?` returned early, or "none"
    result,       \* Result<PDOSWeights, ParsingError>
    \* ---- SpecBands
    text,         \* the .bands file as a sequence of tokens
    bgen,         \* the parameters the text was generated from
    bpos,         \* cursor: number of tokens of text consumed so far
    stage,        \* the stage parse_bands_file is about to run
    ran,          \* the stages run so far, in order
    failedStage,  \* the stage whose ModalResult was Err, or "none"
    parser,       \* the BandsParser fields (an Option is <<>> or <<value>>)
    bsub,         \* position inside the k-point block being read
    blockStart,   \* checkpoint of the outer repeat: cursor before the block
    blocks,       \* Vec<BandPerKPoint> accumulated by the outer repeat
    curBlock,     \* the (kpoint, eigens) pair of the block being read
    curEigen,     \* the Vec<f64> of the sub-block being read
    bresult,      \* Result<BandsFile, BandsParsingError>, or a panic
    bstruct,      \* the BandStructure made by BandsFile::to_band_structure
    \* --- SpecProject: ProjectorConfig::project_pdos_from_config ---
    pcfg,         \* the ProjectorConfig: selections is <<>> (None) or <<list>>
    pmapping,     \* the species_mapping HashMap: symbol -> species id
    pweights,     \* the PDOSWeights: orbital_states and orbital_weights
    pstep,        \* "idle", "select", "partition", "sum", "done" or "panic"
    pentries,     \* the Vec<usize> each selection entry's closure returned
    selected,     \* selected_orbital_ids (indices count from 0)
    angular,      \* angular_indices: the four Vec<usize> for S, P, D, F
    projected,    \* <<>> or <<the SpinData of AngularChannels returned>>
    \* --- SpecPdos: pdos_compute::calculate_pdos ---
    dband,        \* the BandStructure argument
    dproj,        \* the projected_weights argument
    dgrid,        \* the energy_grid argument
    dstep,        \* "idle", "shift", "pair", "accumulate", "done" or "panic"
    dshifted,     \* <<>> or <<the SpinData of shifted eigenvalues>>
    dchan,        \* spin channel calc_spin_pdos is working on
    dk,           \* k-points of that channel already added to result
    dacc,         \* the result array of the running calc_spin_pdos
    dfinished,    \* the PDOSResult of every channel calc_spin_pdos returned for
    dresult,      \* <<>> or <<the SpinData<PDOSResult> calculate_pdos returned>>
    \* --- SpecGrid: the energy grid of EnergyGridConfig and of the run command ---
    gcfg,         \* the EnergyGridConfig: min and max are <<>> (None) or <<value>>
    gband,        \* the (min, max) pair BandStructure::energy_range returns
    gpath,        \* "config" (get_energy_grid) or "run" (the run command)
    gstep,        \* "idle", "start", "range", "done"
    grange,       \* the (e_min, e_max) pair determine_energy_range returned
    gout,         \* the Result of get_energy_grid, or the Vec of generate_grid
    \* --- SpecReduce: the per-eigenvalue reduction of calc_spin_pdos and the Sum of AngularChannels ---
    rkind,        \* "reduce" (the parallel reduction), "sum" (Sum by value) or "sum_refs" (Sum of references)
    ritems,       \* the per-eigenvalue (factor_arr, am_weights) pairs, or the list of AngularChannels
    rgrid,        \* energy_grid.len()
    rsegs,        \* the partial arrays of the reduction, left to right: [done, val, exact, rounded]
    rstep,        \* "idle", "tasks", "added", "start" or "done"
    rresult,      \* the result array of calc_spin_pdos, the accumulation target
    rout          \* <<>> or <<the AngularChannels the sum returned>>

cvars == <<cstream, cpos, cplan, cfault, cout, cstatus, cerr>>
wvars == <<input, gen, pos, pc, versionOk, headerStart, header, kpoints, curKpoint, curSpin,
          failed, result>>
bvars == <<text, bgen, bpos, stage, ran, failedStage, parser, bsub, blockStart, blocks, curBlock,
          curEigen, bresult, bstruct>>
pvars == <<pcfg, pmapping, pweights, pstep, pentries, selected, angular, projected>>
dvars == <<dband, dproj, dgrid, dstep, dshifted, dchan, dk, dacc, dfinished, dresult>>
gvars == <<gcfg, gband, gpath, gstep, grange, gout>>
rvars == <<rkind, ritems, rgrid, rsegs, rstep, rresult, rout>>
vars == <<cvars, wvars, bvars, pvars, dvars, gvars, rvars>>

---------------------------------------------------------------------------
(* Bounds of the model.                                                    *)
MaxK == 2          \* k-points in a generated weight file
MaxOrb == 2        \* orbitals in a generated weight file
MaxBands == 1      \* bands per spin block in a generated weight file
MaxDesc == 1       \* payload bytes of the .pdos_bin descriptive record
MaxPayload == 2    \* payload bytes of a record in SpecCodec
MaxRecs == 2       \* records in a SpecCodec stream

---------------------------------------------------------------------------
(* Bytes, big-endian integers and IEEE-754 doubles.                        *)

\* 0-based slice: n bytes of s starting at offset from
Slice(s, from, n) == SubSeq(s, from + 1, from + n)

RECURSIVE Concat(_)
Concat(ss) == IF ss = <<>> THEN <<>> ELSE Head(ss) \o Concat(Tail(ss))

\* u32::to_be_bytes
BE32(n) == << (n \div 16777216) % 256, (n \div 65536) % 256, (n \div 256) % 256, n % 256 >>

\* u32::from_be_bytes
U32(b) == b[1] * 16777216 + b[2] * 65536 + b[3] * 256 + b[4]

\* be_u32.verify(|size| *size == n): the four bytes decode to n
MarkerIs(b, n) == b = BE32(n)

\* (N * len) as u32 for N a power of two: the usize product is formed in 64 bits
\* and the cast keeps its low 32 bits, i.e. N * (len mod 2^32/N)
Pow2_32_Div4 == 1073741824
Pow2_32_Div8 == 536870912
MulAsU32(N, len) == IF N = 4 THEN 4 * (len % Pow2_32_Div4) ELSE 8 * (len % Pow2_32_Div8)

\* f64 values are kept as their 8 big-endian bytes
F64Zero == <<0, 0, 0, 0, 0, 0, 0, 0>>
\* the bits of 1.0e-6, the magnitude of the literal in OrbitalWeight::new
F64Threshold == <<62, 176, 198, 247, 160, 181, 237, 141>>

F64Sign(b) == b[1] >= 128
F64Magnitude(b) == <<b[1] % 128>> \o Tail(b)
F64IsNaN(b) ==
    /\ b[1] % 128 = 127
    /\ b[2] >= 240
    /\ (b[2] % 16 # 0 \/ \E i \in 3..8 : b[i] # 0)

RECURSIVE LexLess(_, _)
LexLess(a, b) ==
    IF a = <<>> \/ b = <<>> THEN FALSE
    ELSE IF Head(a) # Head(b) THEN Head(a) < Head(b)
    ELSE LexLess(Tail(a), Tail(b))

\* x < y on doubles when y is negative and non-zero: x is negative with the
\* larger magnitude (IEEE magnitudes order as their bit patterns)
F64LessThanNeg(x, ymag) ==
    /\ ~F64IsNaN(x)
    /\ F64Sign(x)
    /\ LexLess(ymag, F64Magnitude(x))

\* x >= 0.0 on doubles
F64NonNegative(x) ==
    /\ ~F64IsNaN(x)
    /\ (~F64Sign(x) \/ F64Magnitude(x) = F64Zero)

---------------------------------------------------------------------------
(* helper.rs: the record codec.                                            *)

RecErr(p) == [ok |-> FALSE, data |-> <<>>, pos |-> p, err |-> "ParserInputError"]

\* A record that ends the stream is accepted without its end marker
ParseRecord_NoEndAtEof(inp, p, expected_size) ==
    IF Len(inp) - p < 4 THEN RecErr(p)
    ELSE IF ~MarkerIs(Slice(inp, p, 4), expected_size) THEN RecErr(p)
    ELSE IF Len(inp) - (p + 4) < expected_size THEN RecErr(p + 4)
    ELSE IF Len(inp) - (p + 4 + expected_size) < 4
         THEN [ok |-> TRUE, data |-> Slice(inp, p + 4, expected_size),
               pos |-> Len(inp), err |-> "none"]
    ELSE IF ~MarkerIs(Slice(inp, p + 4 + expected_size, 4), expected_size)
         THEN RecErr(p + 4 + expected_size)
    ELSE [ok |-> TRUE, data |-> Slice(inp, p + 4, expected_size),
          pos |-> p + 8 + expected_size, err |-> "none"]

\* The end marker is read but not compared with the start marker
ParseRecord_NoEndCheck(inp, p, expected_size) ==
    IF Len(inp) - p < 4 THEN RecErr(p)
    ELSE IF ~MarkerIs(Slice(inp, p, 4), expected_size) THEN RecErr(p)
    ELSE IF Len(inp) - (p + 4) < expected_size THEN RecErr(p + 4)
    ELSE IF Len(inp) - (p + 4 + expected_size) < 4 THEN RecErr(p + 4 + expected_size)
    ELSE [ok |-> TRUE, data |-> Slice(inp, p + 4, expected_size),
          pos |-> p + 8 + expected_size, err |-> "none"]

\* The end marker is left in the stream
ParseRecord_KeepEnd(inp, p, expected_size) ==
    IF Len(inp) - p < 4 THEN RecErr(p)
    ELSE IF ~MarkerIs(Slice(inp, p, 4), expected_size) THEN RecErr(p)
    ELSE IF Len(inp) - (p + 4) < expected_size THEN RecErr(p + 4)
    ELSE IF Len(inp) - (p + 4 + expected_size) < 4 THEN RecErr(p + 4 + expected_size)
    ELSE IF ~MarkerIs(Slice(inp, p + 4 + expected_size, 4), expected_size)
         THEN RecErr(p + 4 + expected_size)
    ELSE [ok |-> TRUE, data |-> Slice(inp, p + 4, expected_size),
          pos |-> p + 4 + expected_size, err |-> "none"]

\* parse_record(input, expected_size).  The cursor a failure leaves behind is
\* winnow's: be_u32 and take consume nothing when they fail, verify rewinds the
\* marker it rejected, and nothing rewinds what earlier parsers of the sequence
\* consumed.
ParseRecord(inp, p, expected_size) ==
    IF Len(inp) - p < 4 THEN RecErr(p)
    ELSE IF ~MarkerIs(Slice(inp, p, 4), expected_size) THEN RecErr(p)
    ELSE IF Len(inp) - (p + 4) < expected_size THEN RecErr(p + 4)
    ELSE IF Len(inp) - (p + 4 + expected_size) < 4 THEN RecErr(p + 4 + expected_size)
    ELSE IF ~MarkerIs(Slice(inp, p + 4 + expected_size, 4), expected_size)
         THEN RecErr(p + 4 + expected_size)
    ELSE [ok |-> TRUE, data |-> Slice(inp, p + 4, expected_size),
          pos |-> p + 8 + expected_size, err |-> "none"]

\* peek_record(input): the next record's size, nothing consumed
PeekRecord(inp, p) ==
    IF Len(inp) - p < 4 THEN [ok |-> FALSE, size |-> 0]
    ELSE [ok |-> TRUE, size |-> U32(Slice(inp, p, 4))]

\* parse_scalar::<u32, 4>
ParseScalarU32(inp, p) ==
    LET r == ParseRecord(inp, p, 4)
    IN  IF r.ok THEN [ok |-> TRUE, val |-> U32(r.data), pos |-> r.pos]
        ELSE [ok |-> FALSE, val |-> 0, pos |-> r.pos]

\* parse_scalar::<f64, 8>
ParseScalarF64(inp, p) ==
    LET r == ParseRecord(inp, p, 8)
    IN  IF r.ok THEN [ok |-> TRUE, val |-> r.data, pos |-> r.pos]
        ELSE [ok |-> FALSE, val |-> F64Zero, pos |-> r.pos]

\* data.chunks_exact(N)
ChunksExact(data, N) == [i \in 1..(Len(data) \div N) |-> Slice(data, N * (i - 1), N)]

\* parse_vec::<u32, 4>(input, len)
ParseVecU32(inp, p, len) ==
    LET r == ParseRecord(inp, p, MulAsU32(4, len))
        chunks == ChunksExact(r.data, 4)
    IN  IF r.ok THEN [ok |-> TRUE, val |-> [i \in DOMAIN chunks |-> U32(chunks[i])], pos |-> r.pos]
        ELSE [ok |-> FALSE, val |-> <<>>, pos |-> r.pos]

\* parse_vec::<f64, 8>(input, len)
ParseVecF64(inp, p, len) ==
    LET r == ParseRecord(inp, p, MulAsU32(8, len))
    IN  IF r.ok THEN [ok |-> TRUE, val |-> ChunksExact(r.data, 8), pos |-> r.pos]
        ELSE [ok |-> FALSE, val |-> <<>>, pos |-> r.pos]

\* The framing of one record as the file format writes it
Frame(payload) == BE32(Len(payload)) \o payload \o BE32(Len(payload))


---------------------------------------------------------------------------
(* Values the variables of a specification hold while another one runs.    *)

CodecIdle ==
    /\ cstream = <<>> /\ cpos = 0 /\ cplan = <<>>
    /\ cfault = [kind |-> "none", rec |-> 0, val |-> 0]
    /\ cout = <<>> /\ cstatus = "idle" /\ cerr = "none"

NoHeader ==
    [total_kpoints |-> 0, num_spins |-> "One", num_orbitals |-> 0, max_bands |-> 0,
     orbital_species |-> <<>>, orbital_ion |-> <<>>, orbital_am |-> <<>>]

NoKpoint == [index |-> 0, kpoint |-> <<>>, spins |-> <<>>]

NoSpin == [index |-> "One", nbands_occ |-> 0, bands |-> <<>>]

NoResult == [ok |-> FALSE, err |-> "none", value |-> <<>>]

WeightsIdle ==
    /\ input = <<>> /\ gen = <<>> /\ pos = 0 /\ pc = "idle"
    /\ versionOk = FALSE /\ headerStart = -1 /\ header = NoHeader
    /\ kpoints = <<>> /\ curKpoint = NoKpoint /\ curSpin = NoSpin
    /\ failed = "none" /\ result = NoResult

NoParser ==
    [spin_polarized |-> <<>>, electron_count |-> <<>>, fermi_energy |-> <<>>,
     lattice_vectors |-> <<>>, eigens_bands |-> <<>>]

NoBlock == [kpoint |-> [index |-> 0, coords |-> <<>>, weight |-> 0], eigens |-> <<>>]

BandsIdle ==
    /\ text = <<>> /\ bgen = <<>> /\ bpos = 0 /\ stage = "idle"
    /\ ran = <<>> /\ failedStage = "none" /\ parser = NoParser
    /\ bsub = "none" /\ blockStart = 0 /\ blocks = <<>>
    /\ curBlock = NoBlock /\ curEigen = <<>> /\ bresult = NoResult
    /\ bstruct = <<>>

ProjectIdle ==
    /\ pcfg = <<>> /\ pmapping = <<>> /\ pweights = <<>> /\ pstep = "idle"
    /\ pentries = <<>> /\ selected = <<>> /\ angular = <<>> /\ projected = <<>>

PdosIdle ==
    /\ dband = <<>> /\ dproj = <<>> /\ dgrid = <<>> /\ dstep = "idle"
    /\ dshifted = <<>> /\ dchan = 0 /\ dk = 0 /\ dacc = <<>>
    /\ dfinished = <<>> /\ dresult = <<>>

GridIdle ==
    /\ gcfg = <<>>
    /\ gband = <<>>
    /\ gpath = "none"
    /\ gstep = "idle"
    /\ grange = <<>>
    /\ gout = <<>>

ReduceIdle ==
    /\ rkind = "idle"
    /\ ritems = <<>>
    /\ rgrid = 0
    /\ rsegs = <<>>
    /\ rstep = "idle"
    /\ rresult = <<>>
    /\ rout = <<>>

---------------------------------------------------------------------------
(* SpecCodec: parse_record applied to streams of framed records.           *)

CodecBytes == {0, 2}

CodecPayloads == UNION {[1..n -> CodecBytes] : n \in 0..MaxPayload}

CodecPlans == UNION {[1..n -> CodecPayloads] : n \in 1..MaxRecs}

RECURSIVE FramedLen(_)
FramedLen(plan) == IF plan = <<>> THEN 0 ELSE Len(Head(plan)) + 8 + FramedLen(Tail(plan))

\* The frame of record r with its end marker overwritten by val
BadEndFrame(payload, val) == BE32(Len(payload)) \o payload \o BE32(val)

CodecStream(plan, fault) ==
    LET frames == [i \in DOMAIN plan |->
                      IF fault.kind = "end" /\ fault.rec = i
                      THEN BadEndFrame(plan[i], fault.val)
                      ELSE Frame(plan[i])]
        whole == Concat(frames)
    IN  IF fault.kind = "cut" THEN SubSeq(whole, 1, fault.val) ELSE whole

CodecFaults(plan) ==
    {[kind |-> "none", rec |-> 0, val |-> 0]}
    \cup {[kind |-> "end", rec |-> r, val |-> v] :
            r \in DOMAIN plan, v \in 0..(MaxPayload + 1)}
    \cup {[kind |-> "cut", rec |-> 0, val |-> t] : t \in 0..(FramedLen(plan) - 1)}

CodecInit ==
    /\ cplan \in CodecPlans
    /\ cfault \in {f \in CodecFaults(cplan) :
                     f.kind = "end" => f.val # Len(cplan[f.rec])}
    /\ cstream = CodecStream(cplan, cfault)
    /\ cpos = 0
    /\ cout = <<>>
    /\ cstatus = "reading"
    /\ cerr = "none"
    /\ WeightsIdle
    /\ BandsIdle
    /\ ProjectIdle
    /\ PdosIdle
    /\ GridIdle
    /\ ReduceIdle

\* One call parse_record(input, n), n the size the caller expects next
ReadRecord ==
    /\ cstatus = "reading"
    /\ LET r == ParseRecord(cstream, cpos, Len(cplan[Len(cout) + 1]))
       IN  /\ cpos' = r.pos
           /\ cout' = IF r.ok THEN Append(cout, r.data) ELSE cout
           /\ cerr' = r.err
           /\ cstatus' = IF ~r.ok THEN "error"
                         ELSE IF Len(cout) + 1 = Len(cplan) THEN "ok"
                         ELSE "reading"
    /\ UNCHANGED <<cstream, cplan, cfault, wvars, bvars, pvars, dvars, gvars, rvars>>

CodecNext == ReadRecord

SpecCodec == CodecInit /\ [][CodecNext]_vars

\* Offset at which record r of the plan ends in the undamaged stream
FrameEnd(plan, r) == FramedLen(SubSeq(plan, 1, r))

(* C3: record framing round-trips.  Every payload returned is the payload  *)
(* that was framed, in order; after k records the cursor stands exactly    *)
(* at the sum of their sizes plus 8 each; and a read only fails on a record *)
(* whose frame is damaged.                                                 *)
C3_RoundTrip ==
    /\ \A i \in DOMAIN cout : cout[i] = cplan[i]
    /\ cstatus \in {"reading", "ok"} => cpos = FrameEnd(cplan, Len(cout))
    /\ cstatus = "ok" => cout = cplan
    /\ cstatus = "error" =>
         \/ cfault.kind = "end" /\ cfault.rec = Len(cout) + 1
         \/ cfault.kind = "cut" /\ cfault.val < FrameEnd(cplan, Len(cout) + 1)

C3_Witness ==
    /\ cstatus = "ok"
    /\ Len(cout) = 2
    /\ Len(cout[1]) = 2 /\ Len(cout[2]) = 1
    /\ cout[1] # <<cout[2][1], cout[2][1]>>
    /\ cpos = 19

---------------------------------------------------------------------------
(* The .pdos_weights / .pdos_bin files the model is run on.                *)

\* doubles written into the generated files: 0.3, -5.0e-7, 1.0, -2.0e-6, 0.0, -1.0e-6
F64Samples ==
    << <<63, 211, 51, 51, 51, 51, 51, 51>>,
       <<190, 160, 198, 247, 160, 181, 237, 141>>,
       <<63, 240, 0, 0, 0, 0, 0, 0>>,
       <<190, 192, 198, 247, 160, 181, 237, 141>>,
       F64Zero,
       <<190, 176, 198, 247, 160, 181, 237, 141>> >>

SampleAt(i) == F64Samples[(i % Len(F64Samples)) + 1]

\* the weight written for k-point k, spin s, band b, orbital o
WeightAt(g, k, s, b, o) == SampleAt(g.shift + k + 2 * s + 3 * b + o)

SpeciesAt(o) == ((o - 1) % 2) + 1
IonAt(o) == ((o - 1) \div 2) + 1
\* the codes 0, 1, .. in the files of shift 0 and 2, 3, .. in those of shift 1
AmCodeAt(g, o) == (o - 1 + 2 * g.shift) % 4

HeaderBytes(g) ==
    Concat(<< Frame(BE32(g.nk)), Frame(BE32(g.ns)), Frame(BE32(g.norb)), Frame(BE32(g.nb)),
              Frame(Concat([o \in 1..g.norb |-> BE32(SpeciesAt(o))])),
              Frame(Concat([o \in 1..g.norb |-> BE32(IonAt(o))])),
              Frame(Concat([o \in 1..g.norb |-> BE32(AmCodeAt(g, o))])) >>)

\* the spin-index field written in front of the s-th spin block of a k-point
SpinIndexAt(g, s) == IF g.swap THEN 3 - s ELSE s

SpinBytes(g, k, s) ==
    Frame(BE32(SpinIndexAt(g, s))) \o Frame(BE32(g.nb))
    \o Concat([b \in 1..g.nb |-> Frame(Concat([o \in 1..g.norb |-> WeightAt(g, k, s, b, o)]))])

KpointBytes(g, k) ==
    Frame(BE32(k) \o F64Zero \o SampleAt(0) \o SampleAt(2))
    \o Concat([s \in 1..g.ns |-> SpinBytes(g, k, s)])

\* flavor A: the header and the k-point blocks
BodyBytes(g) == HeaderBytes(g) \o Concat([k \in 1..g.nk |-> KpointBytes(g, k)])

\* flavor B starts with a version record and a descriptive record of d bytes
BinPrefix(d) == Frame(SampleAt(2)) \o Frame([i \in 1..d |-> 67])

FullFile(g) == (IF g.flavor = "B" THEN BinPrefix(g.d) ELSE <<>>) \o BodyBytes(g)

\* Damage done to a file: cut after at bytes, one byte overwritten, or the
\* start marker and payload of a version record with no end marker put in front
Mutate(f, m) ==
    CASE m.kind = "none" -> f
      [] m.kind = "trunc" -> SubSeq(f, 1, m.at)
      [] m.kind = "poke" -> [f EXCEPT ![m.at + 1] = m.val]
      [] m.kind = "dangle" -> BE32(8) \o SampleAt(2) \o f

PokeVals == {2, 64}

Mutations(f) ==
    {[kind |-> "none", at |-> 0, val |-> 0], [kind |-> "dangle", at |-> 0, val |-> 0]}
    \cup {[kind |-> "trunc", at |-> t, val |-> 0] : t \in 0..(Len(f) - 1)}
    \cup {[kind |-> "poke", at |-> t, val |-> v] : t \in 0..(Len(f) - 1), v \in PokeVals}

Shifts == {0, 1}

Gens ==
    [nk : 1..MaxK, ns : 1..2, norb : 1..MaxOrb, nb : 0..MaxBands, shift : Shifts,
     flavor : {"A"}, d : {0}, swap : BOOLEAN]
    \cup
    [nk : 1..MaxK, ns : 1..2, norb : 1..MaxOrb, nb : 0..MaxBands, shift : Shifts,
     flavor : {"B"}, d : 0..MaxDesc, swap : BOOLEAN]

\* the ends of the records of a stream, found from the start markers alone
RECURSIVE FrameEnds(_, _)
FrameEnds(f, p) ==
    IF Len(f) - p < 4 THEN {}
    ELSE LET e == p + 8 + U32(Slice(f, p, 4))
         IN  IF e > Len(f) THEN {} ELSE {e} \cup FrameEnds(f, e)

\* the offsets of the bytes of the start and end markers of a stream
MarkerOffsets(f) ==
    LET ends == FrameEnds(f, 0)
    IN  UNION {{e - 4, e - 3, e - 2, e - 1} : e \in ends}
        \cup UNION {{e, e + 1, e + 2, e + 3} : e \in (ends \cup {0}) \ {Len(f)}}

---------------------------------------------------------------------------
(* pdos_weights_parser.rs                                                  *)

Err(e) == [ok |-> FALSE, err |-> e, value |-> <<>>]
Ok(v) == [ok |-> TRUE, err |-> "none", value |-> v]

\* Every code above 2 is taken for F
AngularMomentumFrom_Lenient(l) ==
    CASE l = 0 -> "S" [] l = 1 -> "P" [] l = 2 -> "D" [] OTHER -> "F"

\* AngularMomentum::try_from(u32)
AngularMomentumFrom(l) ==
    CASE l = 0 -> "S" [] l = 1 -> "P" [] l = 2 -> "D" [] l = 3 -> "F" [] OTHER -> "invalid"

\* u32::from(AngularMomentum)
U32FromAngularMomentum(value) ==
    CASE value = "S" -> 0 [] value = "P" -> 1 [] value = "D" -> 2 [] value = "F" -> 3

\* NumSpins::try_from(u32), SpinIndex::try_from(u32)
OneOrTwoFrom(v) == CASE v = 1 -> "One" [] v = 2 -> "Two" [] OTHER -> "invalid"

\* NumSpins::spin_count
SpinCount(n) == IF n = "One" THEN 1 ELSE 2

\* OrbitalWeight::new
OrbitalWeightNew(value) == IF F64LessThanNeg(value, F64Threshold) THEN F64Zero ELSE value

\* the closure per_spin_to_per_kpt_data of parse_pdos_weight
PerSpinToPerKptData(wps) ==
    [b \in DOMAIN wps.bands |->
        [o \in DOMAIN wps.bands[b].weights |-> OrbitalWeightNew(wps.bands[b].weights[o])]]

Min2(a, b) == IF a < b THEN a ELSE b

\* Header::extract_orbital_states: the zip of the three metadata vectors
ExtractOrbitalStates(hdr) ==
    [i \in 1..Min2(Len(hdr.orbital_species), Min2(Len(hdr.orbital_ion), Len(hdr.orbital_am))) |->
        [species_id |-> hdr.orbital_species[i], ion_id |-> hdr.orbital_ion[i],
         angular_momentum |-> hdr.orbital_am[i]]]

\* Header::spin_polarized
SpinPolarizedOf(hdr) == IF hdr.num_spins = "One" THEN "False" ELSE "True"

\* The spin block that carries the spin index idx, the first one if none does
SpinBlockOf(kp, idx) ==
    IF \E s \in DOMAIN kp.spins : kp.spins[s].index = idx
    THEN kp.spins[CHOOSE s \in DOMAIN kp.spins : kp.spins[s].index = idx]
    ELSE kp.spins[1]

\* The channels are filled by the spin index read in front of each block
BuildPDOSWeights_ByIndex(hdr, kps) ==
    [spin_polarized |-> SpinPolarizedOf(hdr),
     orbital_states |-> ExtractOrbitalStates(hdr),
     orbital_weights |->
        IF hdr.num_spins = "One"
        THEN [tag |-> "NonPolarized",
              channels |-> << [k \in DOMAIN kps |-> PerSpinToPerKptData(kps[k].spins[1])] >>]
        ELSE [tag |-> "SpinPolarized",
              channels |->
                 << [k \in DOMAIN kps |-> PerSpinToPerKptData(SpinBlockOf(kps[k], "One"))],
                    [k \in DOMAIN kps |-> PerSpinToPerKptData(SpinBlockOf(kps[k], "Two"))] >>]]

\* the tail of parse_pdos_weight: PDOSWeights::new(spin_polarized, orbital_states, orbital_weights)
BuildPDOSWeights(hdr, kps) ==
    [spin_polarized |-> SpinPolarizedOf(hdr),
     orbital_states |-> ExtractOrbitalStates(hdr),
     orbital_weights |->
        IF hdr.num_spins = "One"
        THEN [tag |-> "NonPolarized",
              channels |-> << [k \in DOMAIN kps |-> PerSpinToPerKptData(kps[k].spins[1])] >>]
        ELSE [tag |-> "SpinPolarized",
              channels |-> << [k \in DOMAIN kps |-> PerSpinToPerKptData(kps[k].spins[1])],
                              [k \in DOMAIN kps |-> PerSpinToPerKptData(kps[k].spins[2])] >>]]

\* The descriptive record is peeked at and left in the stream
BinHeaderStep_PeekOnly(inp, p) ==
    IF ~PeekRecord(inp, p).ok THEN [ok |-> FALSE, pos |-> p] ELSE [ok |-> TRUE, pos |-> p]

\* parse_pdos_weight_file: peek_record(input)?, parse_record(input, size)?
BinHeaderStep(inp, p) ==
    IF ~PeekRecord(inp, p).ok THEN [ok |-> FALSE, pos |-> p]
    ELSE [ok |-> ParseRecord(inp, p, PeekRecord(inp, p).size).ok,
          pos |-> ParseRecord(inp, p, PeekRecord(inp, p).size).pos]

\* An error ends the loop and what was read so far is assembled
Propagate_KeepPartial(e) == [pc |-> "assemble", result |-> NoResult]

\* the `?` of parse_pdos_weight, parse_header, parse_kpoint and
\* parse_weight_per_spin: the first error is the result of the whole parse
Propagate(e) == [pc |-> "done", result |-> Err(e)]

\* Where parse_kpoint / parse_weight_per_spin go once the spin block sp is
\* complete: the next spin block, the next k-point, or the assembly
CloseSpin(hdr, kps, kp, sp) ==
    LET spins == Append(kp.spins, sp)
    IN  IF Len(spins) < SpinCount(hdr.num_spins)
        THEN [pc |-> "spin_index", kpoints |-> kps, curKpoint |-> [kp EXCEPT !.spins = spins]]
        ELSE [pc |-> IF Len(kps) + 1 = hdr.total_kpoints THEN "assemble" ELSE "kpoint",
              kpoints |-> Append(kps, [kp EXCEPT !.spins = spins]),
              curKpoint |-> NoKpoint]

---------------------------------------------------------------------------
(* SpecWeights: parse_pdos_weight_file on a generated, possibly damaged    *)
(* file.  Every generated file is parsed undamaged; the largest ones are   *)
(* also parsed cut at every length and with every single byte overwritten. *)
(* Two-spin files are also written with the spin-index fields 2 then 1.    *)

Damaged(g) ==
    /\ g.nk = MaxK /\ g.ns = 2 /\ g.norb = MaxOrb /\ g.nb = MaxBands /\ g.shift = 0
    /\ g.flavor = "B" => g.d = MaxDesc

WeightsInit ==
    /\ \E g \in Gens : \E f \in {FullFile(g)} : \E m \in Mutations(f) :
          /\ m.kind = "poke" => f[m.at + 1] # m.val
          /\ m.kind \in {"poke", "trunc"} => Damaged(g)
          /\ m.kind = "dangle" => g.flavor = "A"
          /\ g.swap => (g.ns = 2 /\ g.flavor = "A" /\ m.kind = "none")
          /\ gen = [g |-> g, mut |-> m]
          /\ input = Mutate(f, m)
    /\ pos = 0
    /\ pc = "version"
    /\ versionOk = FALSE
    /\ headerStart = -1
    /\ header = NoHeader
    /\ kpoints = <<>>
    /\ curKpoint = NoKpoint
    /\ curSpin = NoSpin
    /\ failed = "none"
    /\ result = NoResult
    /\ CodecIdle
    /\ BandsIdle
    /\ ProjectIdle
    /\ PdosIdle
    /\ GridIdle
    /\ ReduceIdle

\* an early return through `?` out of the stage pc
Fail(e) ==
    /\ pc' = Propagate(e).pc
    /\ result' = Propagate(e).result
    /\ failed' = pc

\* let _version: Result<f64, HelperError> = parse_scalar::<f64, 8>(input);
TryVersion ==
    /\ pc = "version"
    /\ \E r \in {ParseScalarF64(input, pos)} :
          /\ versionOk' = r.ok
          /\ pos' = r.pos
          /\ pc' = IF r.ok THEN "bin_header" ELSE "total_kpoints"
          /\ headerStart' = IF r.ok THEN headerStart ELSE r.pos
    /\ UNCHANGED <<input, gen, header, kpoints, curKpoint, curSpin, failed, result,
                   cvars, bvars, pvars, dvars, gvars, rvars>>

\* let (_, size) = peek_record(input)?; let _pdos_bin_header = parse_record(input, size)?;
SkipBinHeader ==
    /\ pc = "bin_header"
    /\ \E r \in {BinHeaderStep(input, pos)} :
          /\ pos' = r.pos
          /\ IF r.ok
             THEN /\ pc' = "total_kpoints"
                  /\ headerStart' = r.pos
                  /\ UNCHANGED <<failed, result>>
             ELSE /\ Fail("HelperError")
                  /\ UNCHANGED headerStart
    /\ UNCHANGED <<input, gen, versionOk, header, kpoints, curKpoint, curSpin, cvars, bvars, pvars, dvars, gvars, rvars>>

HeaderScalars == {"total_kpoints", "num_spins", "num_orbitals", "max_bands"}
HeaderVectors == {"orbital_species", "orbital_ion", "orbital_am"}

AfterField(f) ==
    CASE f = "total_kpoints" -> "num_spins"
      [] f = "num_spins" -> "num_orbitals"
      [] f = "num_orbitals" -> "max_bands"
      [] f = "max_bands" -> "orbital_species"
      [] f = "orbital_species" -> "orbital_ion"
      [] f = "orbital_ion" -> "orbital_am"

\* parse_header: the four parse_scalar::<u32, 4>(input)? in turn
ReadHeaderScalar ==
    /\ pc \in HeaderScalars
    /\ \E r \in {ParseScalarU32(input, pos)} :
          /\ pos' = r.pos
          /\ IF ~r.ok
             THEN Fail("HelperError") /\ UNCHANGED header
             ELSE IF pc = "num_spins" /\ OneOrTwoFrom(r.val) = "invalid"
             THEN Fail("NumSpins") /\ UNCHANGED header
             ELSE /\ header' = [header EXCEPT ![pc] =
                                   IF pc = "num_spins" THEN OneOrTwoFrom(r.val) ELSE r.val]
                  /\ pc' = AfterField(pc)
                  /\ UNCHANGED <<failed, result>>
    /\ UNCHANGED <<input, gen, versionOk, headerStart, kpoints, curKpoint, curSpin,
                   cvars, bvars, pvars, dvars, gvars, rvars>>

\* parse_header: the three parse_vec::<u32, 4>(input, num_orbitals as usize)? in
\* turn, the last with AngularMomentum::try_from; then parse_pdos_weight's loop
\* over 0..header.total_kpoints begins
ReadHeaderVector ==
    /\ pc \in HeaderVectors
    /\ \E r \in {ParseVecU32(input, pos, header.num_orbitals)} :
          /\ pos' = r.pos
          /\ IF ~r.ok
             THEN Fail("HelperError") /\ UNCHANGED header
             ELSE IF pc = "orbital_am"
                     /\ \E i \in DOMAIN r.val : AngularMomentumFrom(r.val[i]) = "invalid"
             THEN Fail("AngularMomentum") /\ UNCHANGED header
             ELSE /\ header' = [header EXCEPT ![pc] =
                                   IF pc = "orbital_am"
                                   THEN [i \in DOMAIN r.val |-> AngularMomentumFrom(r.val[i])]
                                   ELSE r.val]
                  /\ pc' = IF pc # "orbital_am" THEN AfterField(pc)
                           ELSE IF header.total_kpoints = 0 THEN "assemble"
                           ELSE "kpoint"
                  /\ UNCHANGED <<failed, result>>
    /\ UNCHANGED <<input, gen, versionOk, headerStart, kpoints, curKpoint, curSpin,
                   cvars, bvars, pvars, dvars, gvars, rvars>>

\* parse_kpoint: let kp_data = parse_record(input, 28)?; index, kx, ky, kz
ReadKpointRecord ==
    /\ pc = "kpoint"
    /\ \E r \in {ParseRecord(input, pos, 28)} :
          /\ pos' = r.pos
          /\ IF ~r.ok
             THEN Fail("HelperError") /\ UNCHANGED curKpoint
             ELSE /\ curKpoint' = [index |-> U32(Slice(r.data, 0, 4)),
                                   kpoint |-> <<Slice(r.data, 4, 8), Slice(r.data, 12, 8),
                                                Slice(r.data, 20, 8)>>,
                                   spins |-> <<>>]
                  /\ pc' = "spin_index"
                  /\ UNCHANGED <<failed, result>>
    /\ UNCHANGED <<input, gen, versionOk, headerStart, header, kpoints, curSpin,
                   cvars, bvars, pvars, dvars, gvars, rvars>>

\* parse_weight_per_spin: parse_scalar::<u32, 4>(input)?, SpinIndex::try_from(index)?
ReadSpinIndex ==
    /\ pc = "spin_index"
    /\ \E r \in {ParseScalarU32(input, pos)} :
          /\ pos' = r.pos
          /\ IF ~r.ok
             THEN Fail("HelperError") /\ UNCHANGED curSpin
             ELSE IF OneOrTwoFrom(r.val) = "invalid"
             THEN Fail("SpinIndex") /\ UNCHANGED curSpin
             ELSE /\ curSpin' = [index |-> OneOrTwoFrom(r.val), nbands_occ |-> 0, bands |-> <<>>]
                  /\ pc' = "nbands_occ"
                  /\ UNCHANGED <<failed, result>>
    /\ UNCHANGED <<input, gen, versionOk, headerStart, header, kpoints, curKpoint,
                   cvars, bvars, pvars, dvars, gvars, rvars>>

\* parse_weight_per_spin: let nbands_occ = parse_scalar::<u32, 4>(input)?
ReadNbandsOcc ==
    /\ pc = "nbands_occ"
    /\ \E r \in {ParseScalarU32(input, pos)} :
          /\ pos' = r.pos
          /\ IF ~r.ok
             THEN Fail("HelperError") /\ UNCHANGED <<curSpin, curKpoint, kpoints>>
             ELSE IF r.val # 0
             THEN /\ curSpin' = [curSpin EXCEPT !.nbands_occ = r.val]
                  /\ pc' = "band"
                  /\ UNCHANGED <<curKpoint, kpoints, failed, result>>
             ELSE \E n \in {CloseSpin(header, kpoints, curKpoint, curSpin)} :
                  /\ pc' = n.pc
                  /\ kpoints' = n.kpoints
                  /\ curKpoint' = n.curKpoint
                  /\ curSpin' = NoSpin
                  /\ UNCHANGED <<failed, result>>
    /\ UNCHANGED <<input, gen, versionOk, headerStart, header, cvars, bvars, pvars, dvars, gvars, rvars>>

\* parse_weight_per_spin: one turn of (0..nbands_occ).map(parse_vec::<f64, 8>)
ReadBand ==
    /\ pc = "band"
    /\ \E r \in {ParseVecF64(input, pos, header.num_orbitals)} :
          /\ pos' = r.pos
          /\ IF ~r.ok
             THEN Fail("HelperError") /\ UNCHANGED <<curSpin, curKpoint, kpoints>>
             ELSE \E sp \in {[curSpin EXCEPT !.bands = Append(@, [weights |-> r.val])]} :
                  IF Len(sp.bands) < sp.nbands_occ
                  THEN /\ curSpin' = sp
                       /\ UNCHANGED <<pc, curKpoint, kpoints, failed, result>>
                  ELSE \E n \in {CloseSpin(header, kpoints, curKpoint, sp)} :
                       /\ pc' = n.pc
                       /\ kpoints' = n.kpoints
                       /\ curKpoint' = n.curKpoint
                       /\ curSpin' = NoSpin
                       /\ UNCHANGED <<failed, result>>
    /\ UNCHANGED <<input, gen, versionOk, headerStart, header, cvars, bvars, pvars, dvars, gvars, rvars>>

\* parse_pdos_weight: Ok(PDOSWeights::new(spin_polarized, orbital_states, orbital_weights))
Assemble ==
    /\ pc = "assemble"
    /\ result' = Ok(BuildPDOSWeights(header, kpoints))
    /\ pc' = "done"
    /\ UNCHANGED <<input, gen, pos, versionOk, headerStart, header, kpoints, curKpoint,
                   curSpin, failed, cvars, bvars, pvars, dvars, gvars, rvars>>

WeightsNext ==
    \/ TryVersion
    \/ SkipBinHeader
    \/ ReadHeaderScalar
    \/ ReadHeaderVector
    \/ ReadKpointRecord
    \/ ReadSpinIndex
    \/ ReadNbandsOcc
    \/ ReadBand
    \/ Assemble

SpecWeights == WeightsInit /\ [][WeightsNext]_vars

---------------------------------------------------------------------------
(* Claims about parse_pdos_weight_file, checked under SpecWeights.         *)

Channels == result.value.orbital_weights.channels

\* the undamaged file the input was made from, and where its header starts
CleanFile == FullFile(gen.g)
BodyStart == Len(FullFile(gen.g)) - Len(BodyBytes(gen.g))

(* C1 as stated: when the attempt to read the first record as the 8-byte   *)
(* version scalar fails, the attempt has consumed nothing: parse_pdos_weight *)
(* starts at the cursor the stream had before the attempt, offset 0.       *)
C1_FailedAttemptConsumesNothing ==
    (pc \notin {"version", "bin_header"} /\ ~versionOk) => headerStart = 0

\* the PDOSWeights a generated file stands for; it does not depend on the flavor
ExpectedWeights(g) ==
    [spin_polarized |-> IF g.ns = 1 THEN "False" ELSE "True",
     orbital_states |->
        [o \in 1..g.norb |-> [species_id |-> SpeciesAt(o), ion_id |-> IonAt(o),
                              angular_momentum |-> AngularMomentumFrom(AmCodeAt(g, o))]],
     orbital_weights |->
        [tag |-> IF g.ns = 1 THEN "NonPolarized" ELSE "SpinPolarized",
         channels |->
            [s \in 1..g.ns |-> [k \in 1..g.nk |-> [b \in 1..g.nb |->
                [o \in 1..g.norb |-> OrbitalWeightNew(WeightAt(g, k, s, b, o))]]]]]]

(* C2: for a well-formed header-and-body B, the flavor-A file (B alone) and *)
(* the flavor-B file (version record, one skipped record of any size, then *)
(* B) parse to the same PDOSWeights: both yield the table B stands for.    *)
C2_FlavorsAgree ==
    (pc = "done" /\ gen.mut.kind = "none") =>
        /\ result = Ok(ExpectedWeights(gen.g))
        /\ headerStart = BodyStart
        /\ pos = Len(input)

C2_Witness ==
    /\ pc = "done"
    /\ gen.mut.kind = "none"
    /\ gen.g.flavor = "B" /\ gen.g.d = 1
    /\ gen.g.nk = 2 /\ gen.g.ns = 2 /\ gen.g.nb = 1
    /\ versionOk
    /\ result.ok
    /\ Len(Channels[2]) = 2

\* a cut at offset t falls strictly inside a record of the undamaged file
InsideRecord(f, t) == t # 0 /\ t < Len(f) /\ t \notin FrameEnds(f, 0)

(* C5: a weight file cut anywhere inside a record (payload short of the    *)
(* declared size, or end marker missing) parses to an error: no PDOSWeights *)
(* is built from the shortened record.                                     *)
C5_CutFileIsError ==
    (pc = "done" /\ gen.mut.kind = "trunc" /\ InsideRecord(CleanFile, gen.mut.at)) =>
        /\ ~result.ok
        /\ result.value = <<>>
        /\ failed # "none"

C5_Witness ==
    /\ pc = "done"
    /\ gen.mut.kind = "trunc"
    /\ InsideRecord(CleanFile, gen.mut.at)
    /\ gen.mut.at > Len(CleanFile) - 4
    /\ failed = "band"
    /\ Len(kpoints) = MaxK - 1
    /\ ~result.ok

\* the starts of the records of a stream, in order
RECURSIVE FrameStarts(_, _)
FrameStarts(f, p) ==
    IF Len(f) - p < 4 \/ p + 8 + U32(Slice(f, p, 4)) > Len(f) THEN <<>>
    ELSE <<p>> \o FrameStarts(f, p + 8 + U32(Slice(f, p, 4)))

\* the payload offsets of the records that hold an enum code: num_spins, the
\* angular-momentum vector and the spin index of every spin block
EnumOffsets(g) ==
    LET perK == 1 + g.ns * (2 + g.nb)
        recs == {2, 7} \cup {7 + (k - 1) * perK + 1 + (s - 1) * (2 + g.nb) + 1 :
                               k \in 1..g.nk, s \in 1..g.ns}
    IN  UNION {UNION {{Len(FullFile(g)) - Len(body) + starts[r] + 4 + i :
                         i \in 0..(U32(Slice(body, starts[r], 4)) - 1)} : r \in recs} :
               body \in {BodyBytes(g)}, starts \in {FrameStarts(BodyBytes(g), 0)}}

C7_ShapeMatchesHeader ==
    (pc = "done" /\ result.ok) =>
        /\ \A c \in DOMAIN Channels : Len(Channels[c]) = header.total_kpoints
        /\ \A c \in DOMAIN Channels : \A k \in DOMAIN Channels[c] :
              \A b \in DOMAIN Channels[c][k] : Len(Channels[c][k][b]) = header.num_orbitals
        /\ Len(result.value.orbital_states) = header.num_orbitals

(* C8 as stated: every weight stored in the returned weight table is       *)
(* non-negative.                                                           *)
C8_WeightsNonNegative ==
    (pc = "done" /\ result.ok) =>
        \A c \in DOMAIN Channels : \A k \in DOMAIN Channels[c] :
            \A b \in DOMAIN Channels[c][k] : \A o \in DOMAIN Channels[c][k][b] :
                F64NonNegative(Channels[c][k][b][o])

---------------------------------------------------------------------------
(* The .bands text.  The text is kept as its sequence of tokens: a literal *)
(* label, a run of blanks, a run of digits, a decimal number with a        *)
(* fraction part, a line ending, or anything else.                         *)

MaxBlocks == 2     \* k-point blocks in a generated .bands text
MaxEigen == 2      \* eigenvalue lines per sub-block in a generated .bands text

Lab(str) == [t |-> "lab", s |-> str, v |-> 0]
Blank == [t |-> "sp", s |-> "", v |-> 0]
Eol == [t |-> "nl", s |-> "", v |-> 0]
Digits(n) == [t |-> "int", s |-> "", v |-> n]
Decimal(n) == [t |-> "flt", s |-> "", v |-> n]
Junk == [t |-> "junk", s |-> "", v |-> 0]

\* The eigenvalue written on line b of sub-block sp of block k.
EigenAt(k, sp, b) == 100 * k + 10 * sp + b

\* The six header constructs as CASTEP writes them for g.spin components.
BandsHeaderLines(g) ==
    << <<Lab("Number of k-points"), Blank, Digits(g.nk), Eol>>,
       <<Lab("Number of spin components"), Blank, Digits(g.spin), Eol>>,
       IF g.spin = 2
       THEN <<Lab("Number of electrons"), Blank, Decimal(4), Blank, Decimal(3), Blank, Eol>>
       ELSE <<Lab("Number of electrons"), Blank, Decimal(7), Blank, Eol>>,
       IF g.spin = 2
       THEN <<Lab("Number of eigenvalues"), Blank, Digits(g.nb), Blank, Digits(g.nb), Eol>>
       ELSE <<Lab("Number of eigenvalues"), Blank, Digits(g.nb), Eol>>,
       IF g.spin = 2
       THEN <<Lab("Fermi energies (in atomic units)"), Blank, Decimal(1), Blank, Decimal(2), Eol>>
       ELSE <<Lab("Fermi energy (in atomic units)"), Blank, Decimal(1), Eol>>,
       <<Lab("Unit cell vectors"), Eol>>,
       <<Blank, Decimal(5), Blank, Decimal(0), Blank, Decimal(0), Eol>>,
       <<Blank, Decimal(0), Blank, Decimal(5), Blank, Decimal(0), Eol>>,
       <<Blank, Decimal(0), Blank, Decimal(0), Blank, Decimal(5), Eol>> >>

SubBlockLines(g, k, sp) ==
    << <<Lab(IF sp = 1 THEN "Spin component 1" ELSE "Spin component 2"), Eol>> >>
    \o [b \in 1..g.nb |-> <<Blank, Decimal(EigenAt(k, sp, b)), Eol>>]

BlockLines(g, k) ==
    << <<Lab("K-point"), Blank, Digits(k), Blank, Decimal(0), Blank, Decimal(0), Blank,
         Decimal(0), Blank, Decimal(k), Eol>> >>
    \o Concat([sp \in 1..g.sub |-> SubBlockLines(g, k, sp)])

BandsLines(g) == BandsHeaderLines(g) \o Concat([k \in 1..g.nk |-> BlockLines(g, k)])

\* Damage done to a text: one token made unreadable, the text cut after a
\* token, or m.n whole lines left out from line m.at on.
BandsText(g, m) ==
    CASE m.kind = "junk"  -> [i \in 1..Len(Concat(BandsLines(g))) |->
                                 IF i = m.at THEN Junk ELSE Concat(BandsLines(g))[i]]
      [] m.kind = "trunc" -> SubSeq(Concat(BandsLines(g)), 1, m.at)
      [] m.kind = "drop"  -> Concat(SubSeq(BandsLines(g), 1, m.at - 1)
                                    \o SubSeq(BandsLines(g), m.at + m.n, Len(BandsLines(g))))
      [] OTHER            -> Concat(BandsLines(g))

BandsGens ==
    [spin : {1, 2}, sub : {1, 2}, nk : 1..MaxBlocks, nb : 1..MaxEigen]

BandsDamaged(g) == g.nk = MaxBlocks /\ g.nb = MaxEigen

\* The line of a generated text that holds "Unit cell vectors".
UnitCellLine == 6

BandsMutations(g) ==
    {[kind |-> "none", at |-> 0, n |-> 0]}
    \cup [kind : {"drop"}, at : 1..Len(BandsLines(g)), n : {1}]
    \cup [kind : {"drop"}, at : {UnitCellLine}, n : 2..(Len(BandsLines(g)) - UnitCellLine + 1)]
    \cup (IF BandsDamaged(g)
          THEN [kind : {"junk"}, at : 1..Len(Concat(BandsLines(g))), n : {0}]
               \cup [kind : {"trunc"}, at : 0..(Len(Concat(BandsLines(g))) - 1), n : {0}]
          ELSE {})

---------------------------------------------------------------------------
(* The winnow parsers of bands/parser.rs on tokens.                        *)

\* One primitive parser against one token: a literal tag, space1, digit1,
\* float, line_ending, or one_of(('1','2')).  digit1 stops in front of the
\* '.' of a decimal, where no parser that follows it in this grammar
\* matches, so it is refused on a decimal; float accepts a run of digits.
Matches(tok, m) ==
    CASE m = "space1"      -> tok.t = "sp"
      [] m = "line_ending" -> tok.t = "nl"
      [] m = "digit1"      -> tok.t = "int"
      [] m = "float"       -> tok.t \in {"int", "flt"}
      [] m = "one_of_1_2"  -> tok.t = "int" /\ tok.v \in {1, 2}
      [] OTHER             -> tok.t = "lab" /\ tok.s = m

\* A sequence of primitive parsers applied at cursor p.
MatchSeq(inp, p, pat) ==
    /\ Len(inp) - p >= Len(pat)
    /\ \A i \in 1..Len(pat) : Matches(inp[p + i], pat[i])

KpointCountPat == <<"Number of k-points", "space1", "digit1", "line_ending">>

SpinConfigPat == <<"Number of spin components", "space1", "one_of_1_2", "line_ending">>

\* `_ => fail` when spin_polarized is None: the empty set of patterns.
ElectronCountPats(sp) ==
    CASE sp = <<"True">>  -> {<<"Number of electrons", "space1", "float", "space1", "float",
                               "space1", "line_ending">>}
      [] sp = <<"False">> -> {<<"Number of electrons", "space1", "float", "space1",
                               "line_ending">>}
      [] OTHER            -> {}

EigenvalueCountPats(sp) ==
    CASE sp = <<"True">>  -> {<<"Number of eigenvalues", "space1", "digit1", "space1", "digit1",
                               "line_ending">>}
      [] sp = <<"False">> -> {<<"Number of eigenvalues", "space1", "digit1", "line_ending">>}
      [] OTHER            -> {}

FermiEnergyPats(sp) ==
    CASE sp = <<"True">>  -> {<<"Fermi energies (in atomic units)", "space1", "float", "space1",
                               "float", "line_ending">>}
      [] sp = <<"False">> -> {<<"Fermi energy (in atomic units)", "space1", "float",
                               "line_ending">>}
      [] OTHER            -> {}

VectorLinePat == <<"space1", "float", "space1", "float", "space1", "float", "line_ending">>

\* The heading line is not asked for
UnitCellPat_NoHeading == VectorLinePat \o VectorLinePat \o VectorLinePat

UnitCellPat ==
    <<"Unit cell vectors", "line_ending">> \o VectorLinePat \o VectorLinePat \o VectorLinePat

KpointPat ==
    <<"K-point", "space1", "digit1", "space1", "float", "space1", "float", "space1", "float",
      "space1", "float", "line_ending">>

SpinHeadingPats ==
    {<<"Spin component 1", "line_ending">>, <<"Spin component 2", "line_ending">>}

EigenLinePat == <<"space1", "float", "line_ending">>

\* The values of the float / digit1 tokens among the n tokens behind p.
Numbers(inp, p, n) ==
    [j \in 1..Cardinality({i \in 1..n : inp[p + i].t \in {"int", "flt"}}) |->
        inp[p + (CHOOSE i \in 1..n :
                    /\ inp[p + i].t \in {"int", "flt"}
                    /\ Cardinality({h \in 1..i : inp[p + h].t \in {"int", "flt"}}) = j)].v]

---------------------------------------------------------------------------
(* SpecBands: BandsParser::parse_bands_file, stage by stage.               *)

StageOrder ==
    <<"KpointCount", "SpinConfig", "ElectronCount", "EigenvalueCount", "FermiEnergy",
      "LatticeVectors", "PerKpointBlocks">>

\* What follows a stage in the and_then chain; the reshaping and the builder
\* follow the last one.
NextStage(name) ==
    CASE name = "KpointCount"     -> "SpinConfig"
      [] name = "SpinConfig"      -> "ElectronCount"
      [] name = "ElectronCount"   -> "EigenvalueCount"
      [] name = "EigenvalueCount" -> "FermiEnergy"
      [] name = "FermiEnergy"     -> "LatticeVectors"
      [] name = "LatticeVectors"  -> "PerKpointBlocks"
      [] OTHER                    -> "Build"

\* The next stage runs whatever the result of the stage before it
AndThen_RunNext(ok, next) == next

\* Result::and_then, and `?` behind the chain: the closure of the next stage
\* runs on Ok only; an Err leaves parse_bands_file.
AndThen(ok, next) == IF ok THEN next ELSE "done"

Panic == [ok |-> FALSE, err |-> "panic", value |-> <<>>]

BandsInit ==
    /\ CodecIdle
    /\ WeightsIdle
    /\ ProjectIdle
    /\ PdosIdle
    /\ GridIdle
    /\ ReduceIdle
    /\ \E g \in BandsGens : \E m \in BandsMutations(g) :
          /\ bgen = [g |-> g, m |-> m]
          /\ text = BandsText(g, m)
    /\ bpos = 0
    /\ stage = "KpointCount"
    /\ ran = <<>>
    /\ failedStage = "none"
    /\ parser = NoParser
    /\ bsub = "none"
    /\ blockStart = 0
    /\ blocks = <<>>
    /\ curBlock = NoBlock
    /\ curEigen = <<>>
    /\ bresult = NoResult
    /\ bstruct = <<>>

\* The ModalResult of stage `name` enters the chain.
StageResult(name, ok) ==
    /\ stage' = AndThen(ok, NextStage(name))
    /\ failedStage' = IF ok THEN failedStage ELSE name
    /\ bresult' = IF ok THEN bresult ELSE Err("ContextError")

\* A header stage whose grammar is one of `pats` and which stores `field`.
HeaderStage(name, pats, field) ==
    /\ stage = name
    /\ ran' = Append(ran, name)
    /\ \E hit \in {{pat \in pats : MatchSeq(text, bpos, pat)}} :
          /\ StageResult(name, hit # {})
          /\ IF hit # {}
             THEN \E pat \in hit :
                     /\ bpos' = bpos + Len(pat)
                     /\ parser' = IF field = "none" THEN parser
                                  ELSE [parser EXCEPT ![field] =
                                           << IF field = "spin_polarized"
                                              THEN (IF text[bpos + 3].v = 2 THEN "True" ELSE "False")
                                              ELSE Numbers(text, bpos, Len(pat)) >>]
             ELSE UNCHANGED <<bpos, parser>>
    /\ UNCHANGED <<text, bgen, bsub, blockStart, blocks, curBlock, curEigen, bstruct, cvars, wvars, pvars, dvars, gvars, rvars>>

ParseKpointCount == HeaderStage("KpointCount", {KpointCountPat}, "none")

ParseSpinConfig == HeaderStage("SpinConfig", {SpinConfigPat}, "spin_polarized")

ParseElectronCount ==
    HeaderStage("ElectronCount", ElectronCountPats(parser.spin_polarized), "electron_count")

ParseEigenvalueCount ==
    HeaderStage("EigenvalueCount", EigenvalueCountPats(parser.spin_polarized), "none")

ParseFermiEnergy ==
    HeaderStage("FermiEnergy", FermiEnergyPats(parser.spin_polarized), "fermi_energy")

ParseUnitCellVectors == HeaderStage("LatticeVectors", {UnitCellPat}, "lattice_vectors")

\* parse_band_per_kpoint is entered: self.spin_polarized.unwrap().
BeginBlocks ==
    /\ stage = "PerKpointBlocks" /\ bsub = "none"
    /\ ran' = Append(ran, "PerKpointBlocks")
    /\ IF parser.spin_polarized = <<>>
       THEN /\ stage' = "done" /\ bresult' = Panic /\ bsub' = bsub
       ELSE /\ bsub' = "kpoint" /\ UNCHANGED <<stage, bresult>>
    /\ UNCHANGED <<text, bgen, bpos, failedStage, parser, blockStart, blocks, curBlock, curEigen,
                   bstruct, cvars, wvars, pvars, dvars, gvars, rvars>>

\* The outer repeat(1.., block) meets a block that does not parse: an error
\* when no block was read yet; otherwise the cursor goes back to `start`,
\* where that block began, and the blocks read so far are the stage's Ok
\* value.
EndBlocks(start) ==
    /\ StageResult("PerKpointBlocks", blocks # <<>>)
    /\ bpos' = (IF blocks # <<>> THEN start ELSE bpos)
    /\ parser' = (IF blocks # <<>> THEN [parser EXCEPT !.eigens_bands = <<blocks>>] ELSE parser)
    /\ bsub' = "over"
    /\ UNCHANGED <<blocks, curBlock, curEigen, blockStart>>

\* The map closure of a block whose sub-blocks are es: eigens[0], eigens[1].
CloseBlock(es) ==
    IF parser.spin_polarized = <<"True">> /\ Len(es) < 2
    THEN /\ stage' = "done" /\ bresult' = Panic
         /\ UNCHANGED <<bpos, failedStage, parser, bsub, blockStart, blocks, curBlock, curEigen>>
    ELSE /\ blocks' = Append(blocks,
                [kpoint |-> curBlock.kpoint,
                 eigen_band |-> IF parser.spin_polarized = <<"True">>
                                THEN <<es[1], es[2]>> ELSE <<es[1]>>])
         /\ bsub' = "kpoint"
         /\ curBlock' = NoBlock
         /\ curEigen' = <<>>
         /\ UNCHANGED <<bpos, stage, failedStage, parser, blockStart, bresult>>

\* The `kpoint` parser at the head of a block.
ReadKpointLine ==
    /\ stage = "PerKpointBlocks" /\ bsub = "kpoint"
    /\ IF MatchSeq(text, bpos, KpointPat)
       THEN /\ blockStart' = bpos
            /\ bpos' = bpos + Len(KpointPat)
            /\ curBlock' = [kpoint |-> [index |-> text[bpos + 3].v,
                                        coords |-> <<text[bpos + 5].v, text[bpos + 7].v,
                                                     text[bpos + 9].v>>,
                                        weight |-> text[bpos + 11].v],
                            eigens |-> <<>>]
            /\ bsub' = "spin"
            /\ UNCHANGED <<stage, failedStage, parser, blocks, curEigen, bresult>>
       ELSE EndBlocks(bpos)
    /\ UNCHANGED <<text, bgen, ran, bstruct, cvars, wvars, pvars, dvars, gvars, rvars>>

\* One round of repeat(1..=2, preceded(heading, eigenvalues)): the heading and
\* the first eigenvalue line, which `eigenvalues` requires.
ReadSpinHeading ==
    /\ stage = "PerKpointBlocks" /\ bsub = "spin"
    /\ IF \E h \in SpinHeadingPats : MatchSeq(text, bpos, h \o EigenLinePat)
       THEN /\ bpos' = bpos + 5
            /\ curEigen' = <<text[bpos + 4].v>>
            /\ bsub' = "eigen"
            /\ UNCHANGED <<stage, failedStage, parser, blockStart, blocks, curBlock, bresult>>
       ELSE IF Len(curBlock.eigens) >= 1
            THEN CloseBlock(curBlock.eigens)
            ELSE EndBlocks(blockStart)
    /\ UNCHANGED <<text, bgen, ran, bstruct, cvars, wvars, pvars, dvars, gvars, rvars>>

\* One round of repeat(1.., delimited(space1, float, line_ending)); the inner
\* repeat(1..=2, ..) stops by itself after its second sub-block.
ReadEigenLine ==
    /\ stage = "PerKpointBlocks" /\ bsub = "eigen"
    /\ IF MatchSeq(text, bpos, EigenLinePat)
       THEN /\ bpos' = bpos + 3
            /\ curEigen' = Append(curEigen, text[bpos + 2].v)
            /\ UNCHANGED <<stage, failedStage, parser, bsub, blockStart, blocks, curBlock,
                           bresult>>
       ELSE IF Len(curBlock.eigens) = 1
            THEN CloseBlock(Append(curBlock.eigens, curEigen))
            ELSE /\ curBlock' = [curBlock EXCEPT !.eigens = Append(curBlock.eigens, curEigen)]
                 /\ curEigen' = <<>>
                 /\ bsub' = "spin"
                 /\ UNCHANGED <<bpos, stage, failedStage, parser, blockStart, blocks, bresult>>
    /\ UNCHANGED <<text, bgen, ran, bstruct, cvars, wvars, pvars, dvars, gvars, rvars>>

\* The BandsFile handed to the builder: k-points and spin-major eigenvalues.
BandsFileOf(p) ==
    [spin_polarized |-> p.spin_polarized[1],
     lattice_vectors |-> p.lattice_vectors[1],
     fermi_energy |-> p.fermi_energy[1],
     electron_count |-> p.electron_count[1],
     kpoints |-> [i \in 1..Len(p.eigens_bands[1]) |-> p.eigens_bands[1][i].kpoint],
     eigenvalues |->
        [c \in 1..(IF p.spin_polarized = <<"True">> THEN 2 ELSE 1) |->
            [i \in 1..Len(p.eigens_bands[1]) |-> p.eigens_bands[1][i].eigen_band[c]]]]

\* The reshaping behind the chain and BandsFileBuilder::build; every unwrap
\* of a field that is still None panics.
Build ==
    /\ stage = "Build"
    /\ stage' = "done"
    /\ bresult' = IF \E f \in {"spin_polarized", "electron_count", "fermi_energy",
                               "lattice_vectors", "eigens_bands"} : parser[f] = <<>>
                  THEN Panic
                  ELSE Ok(BandsFileOf(parser))
    /\ UNCHANGED <<text, bgen, bpos, ran, failedStage, parser, bsub, blockStart, blocks,
                   curBlock, curEigen, bstruct, cvars, wvars, pvars, dvars, gvars, rvars>>

\* SpinData<T>: the tag and the one or two channels.
SpinDataOf(chs) ==
    [tag |-> IF Len(chs) = 2 THEN "SpinPolarized" ELSE "NonPolarized", channels |-> chs]

\* KpointWeight::new keeps the value as it is.
KpointWeightNew(value) == value

\* The k-points of the eigenvalues come out last block first
ToBandStructureOf_Reversed(bf) ==
    [spin_polarized |-> bf.spin_polarized,
     kpoint_weights |-> [i \in 1..Len(bf.kpoints) |-> KpointWeightNew(bf.kpoints[i].weight)],
     eigenvalues |-> SpinDataOf([c \in 1..Len(bf.eigenvalues) |->
                        [i \in 1..Len(bf.eigenvalues[c]) |->
                            bf.eigenvalues[c][Len(bf.eigenvalues[c]) + 1 - i]]]),
     fermi_energy |-> SpinDataOf(bf.fermi_energy)]

\* The Fermi energy is always handed on as one value
ToBandStructureOf_OneFermi(bf) ==
    [spin_polarized |-> bf.spin_polarized,
     kpoint_weights |-> [i \in 1..Len(bf.kpoints) |-> KpointWeightNew(bf.kpoints[i].weight)],
     eigenvalues |-> SpinDataOf(bf.eigenvalues),
     fermi_energy |-> SpinDataOf(<<bf.fermi_energy[1]>>)]

\* BandsFile::to_band_structure.
ToBandStructureOf(bf) ==
    [spin_polarized |-> bf.spin_polarized,
     kpoint_weights |-> [i \in 1..Len(bf.kpoints) |-> KpointWeightNew(bf.kpoints[i].weight)],
     eigenvalues |-> SpinDataOf(bf.eigenvalues),
     fermi_energy |-> SpinDataOf(bf.fermi_energy)]

\* The caller turns the parsed BandsFile into the BandStructure.
ToBandStructure ==
    /\ stage = "done" /\ bresult.ok /\ bstruct = <<>>
    /\ bstruct' = <<ToBandStructureOf(bresult.value)>>
    /\ UNCHANGED <<text, bgen, bpos, stage, ran, failedStage, parser, bsub, blockStart, blocks,
                   curBlock, curEigen, bresult, cvars, wvars, pvars, dvars, gvars, rvars>>

BandsNext ==
    \/ ParseKpointCount
    \/ ParseSpinConfig
    \/ ParseElectronCount
    \/ ParseEigenvalueCount
    \/ ParseFermiEnergy
    \/ ParseUnitCellVectors
    \/ BeginBlocks
    \/ ReadKpointLine
    \/ ReadSpinHeading
    \/ ReadEigenLine
    \/ Build
    \/ ToBandStructure

SpecBands == BandsInit /\ [][BandsNext]_vars

---------------------------------------------------------------------------
(* Claims about parse_bands_file.                                          *)

\* C9: the stages run are always a prefix of the fixed order KpointCount,
\* SpinConfig, ElectronCount, EigenvalueCount, FermiEnergy, LatticeVectors,
\* PerKpointBlocks, and once a stage has failed it is the last stage that
\* ran, parse_bands_file is over and its result is an error without a
\* BandsFile.
C9_StagesInOrderStopAtFailure ==
    /\ ran = SubSeq(StageOrder, 1, Len(ran))
    /\ (stage \in {"Build", "done"} /\ bresult.ok) => ran = StageOrder
    /\ failedStage # "none" =>
          /\ ran # <<>> /\ ran[Len(ran)] = failedStage
          /\ stage = "done"
          /\ ~bresult.ok /\ bresult.err = "ContextError" /\ bresult.value = <<>>

\* A stage in the middle of the chain has failed after four stages succeeded.
C9_Witness ==
    /\ failedStage = "FermiEnergy"
    /\ ran = SubSeq(StageOrder, 1, 5)
    /\ stage = "done" /\ ~bresult.ok

\* C10: parse_bands_file returns Ok only when every token of the input, up
\* to its end, was matched by the grammar.
C10_OkOnlyOnWholeInput ==
    (stage = "done" /\ bresult.ok) => bpos = Len(text)

\* The eigenvalues the undamaged text generated from g holds in sub-block c
\* of block k.
WrittenEigen(g, k, c) == [b \in 1..g.nb |-> EigenAt(k, c, b)]

\* C11 as stated: every k-point block of an accepted text holds as many
\* "Spin component" sub-blocks as the spin mode has channels, and the
\* eigenvalues of every sub-block of every block are in the parsed result.
C11_SubBlocksMatchChannels ==
    (stage = "done" /\ bresult.ok /\ bgen.m.kind = "none") =>
        /\ bgen.g.sub = (IF bresult.value.spin_polarized = "True" THEN 2 ELSE 1)
        /\ Len(bresult.value.eigenvalues) = bgen.g.sub
        /\ \A c \in 1..bgen.g.sub : \A k \in 1..bgen.g.nk :
              bresult.value.eigenvalues[c][k] = WrittenEigen(bgen.g, k, c)

\* C12: a text without its "Unit cell vectors" line, whatever follows the
\* Fermi-energy line, ends in an error raised by the LatticeVectors stage
\* and no BandsFile.
C12_MissingUnitCellFails ==
    (stage = "done" /\ bgen.m.kind = "drop" /\ bgen.m.at = UnitCellLine) =>
        /\ failedStage = "LatticeVectors"
        /\ ran = SubSeq(StageOrder, 1, 6)
        /\ ~bresult.ok /\ bresult.err = "ContextError" /\ bresult.value = <<>>
        /\ bstruct = <<>>

\* The heading and the three vector lines are missing: a k-point block
\* follows the Fermi-energy line.
C12_Witness ==
    /\ stage = "done"
    /\ bgen.m.kind = "drop" /\ bgen.m.at = UnitCellLine /\ bgen.m.n = 4
    /\ bpos < Len(text) /\ text[bpos + 1] = Lab("K-point")
    /\ failedStage = "LatticeVectors"
    /\ ~bresult.ok

\* C13: the BandStructure has one k-point weight per block read, in the
\* order the blocks were read; every spin channel of its eigenvalues has one
\* entry per block in that order, and entry i is the list of eigenvalue lines
\* read in block i for that channel, whatever "Number of eigenvalues" said.
C13_BandStructureFollowsBlocks ==
    bstruct # <<>> =>
        /\ Len(bstruct[1].kpoint_weights) = Len(blocks)
        /\ \A i \in 1..Len(blocks) : bstruct[1].kpoint_weights[i] = blocks[i].kpoint.weight
        /\ bstruct[1].eigenvalues.tag =
              (IF parser.spin_polarized = <<"True">> THEN "SpinPolarized" ELSE "NonPolarized")
        /\ \A c \in 1..Len(bstruct[1].eigenvalues.channels) :
              /\ Len(bstruct[1].eigenvalues.channels[c]) = Len(blocks)
              /\ \A i \in 1..Len(blocks) :
                    bstruct[1].eigenvalues.channels[c][i] = blocks[i].eigen_band[c]

\* Two blocks were read, the second with fewer eigenvalue lines than the
\* header declared.
C13_Witness ==
    /\ bstruct # <<>>
    /\ bgen.m.kind = "drop" /\ bgen.g.nb = 2 /\ bgen.g.spin = 2
    /\ Len(blocks) = 2
    /\ Len(bstruct[1].eigenvalues.channels) = 2
    /\ Len(bstruct[1].eigenvalues.channels[2][2]) = 1
    /\ Len(bstruct[1].eigenvalues.channels[2][1]) = 2
    /\ bstruct[1].kpoint_weights = <<1, 2>>

---------------------------------------------------------------------------
(* SpecProject: ProjectorConfig::project_pdos_from_config on small        *)
(* configurations.  Orbital indices count from 0 as in the source; a      *)
(* weight is an exact integer, so a sum does not depend on the order in   *)
(* which the parallel iterator adds.                                      *)

MaxSel == 2        \* selection entries of one projector
MaxAtoms == 2      \* ion ranks listed by one selection entry

OrbitalState(species_id, ion_id, angular_momentum) ==
    [species_id |-> species_id, ion_id |-> ion_id, angular_momentum |-> angular_momentum]

\* The array [S, P, D, F] that project_pdos_from_config maps over
AngularOrder == <<"S", "P", "D", "F">>

\* The ascending sequence of a finite set of integers
SortedSeq(S) ==
    [j \in 1..Cardinality(S) |-> CHOOSE x \in S : Cardinality({y \in S : y < x}) = j - 1]

\* PDOSWeights of a layout: the weight vector at (channel c, k-point k,
\* eigenvalue e) is the layout's unit vector times c + 2(k-1) + 4(e-1)
PDOSWeightsOf(l) ==
    [orbital_states |-> l.states,
     orbital_weights |->
        [tag |-> l.tag,
         channels |->
            [c \in 1..(IF l.tag = "SpinPolarized" THEN 2 ELSE 1) |->
                [k \in 1..l.nk |->
                    [e \in 1..l.ne |->
                        [o \in 1..Len(l.states) |->
                            (c + 2 * (k - 1) + 4 * (e - 1)) * l.unit[o]]]]]]]

ProjectLayouts ==
    { [tag |-> "NonPolarized", nk |-> 1, ne |-> 1, unit |-> <<1, 2>>,
       states |-> <<OrbitalState(1, 1, "S"), OrbitalState(1, 1, "P")>>],
      [tag |-> "SpinPolarized", nk |-> 2, ne |-> 1, unit |-> <<1, 2, 4, 8>>,
       states |-> <<OrbitalState(1, 1, "S"), OrbitalState(1, 2, "S"),
                    OrbitalState(2, 1, "P"), OrbitalState(2, 1, "D")>>],
      [tag |-> "NonPolarized", nk |-> 1, ne |-> 2, unit |-> <<3, 5, 7, 11>>,
       states |-> <<OrbitalState(2, 1, "F"), OrbitalState(1, 1, "S"),
                    OrbitalState(1, 2, "P"), OrbitalState(1, 2, "P")>>] }

\* The HashMap PDOSConfig::species_mapping builds; "X" is in no mapping
SpeciesMappings ==
    { [s \in {"Mo", "S"} |-> IF s = "Mo" THEN 1 ELSE 2],
      [s \in {"Mo", "S"} |-> IF s = "Mo" THEN 2 ELSE 1] }

\* Ion rank lists: a ones followed by b twos, a + b <= MaxAtoms
AtomLists ==
    { l \in { [i \in 1..(a + b) |-> IF i <= a THEN 1 ELSE 2] :
                a \in 0..MaxAtoms, b \in 0..MaxAtoms } : Len(l) <= MaxAtoms }

\* Selection: atoms is <<>> (None) or <<list>> (Some(list))
Selections ==
    { [species |-> s, atoms |-> at] :
        s \in {"Mo", "S"}, at \in {<<>>} \cup {<<l>> : l \in AtomLists} }
    \cup { [species |-> "X", atoms |-> at] : at \in {<<>>, << <<1>> >>} }

\* ProjectorConfig: selections is <<>> (None) or <<list>> (Some(list))
ProjectorConfigs ==
    {[selections |-> <<>>]} \cup
    {[selections |-> <<l>>] : l \in UNION {[1..n -> Selections] : n \in 0..MaxSel}}

\* The filter_map of the None arm: every orbital of the species
IndicesOfSpecies(orbital_states, species_id) ==
    SortedSeq({i \in 0..(Len(orbital_states) - 1) :
                 orbital_states[i + 1].species_id = species_id})

\* The filter_map of the Some arm, for one atom_id
IndicesOfAtom(orbital_states, species_id, atom_id) ==
    SortedSeq({i \in 0..(Len(orbital_states) - 1) :
                 /\ orbital_states[i + 1].species_id = species_id
                 /\ orbital_states[i + 1].ion_id = atom_id})

\* Variant: the Some arm ignores the listed ion ranks
SelectionIndices_AnyIon(sel, species_id, orbital_states) ==
    IndicesOfSpecies(orbital_states, species_id)

\* The closure of the outer flat_map once species_id is resolved
SelectionIndices(sel, species_id, orbital_states) ==
    IF sel.atoms = <<>>
    THEN IndicesOfSpecies(orbital_states, species_id)
    ELSE Concat([a \in 1..Len(sel.atoms[1]) |->
                   IndicesOfAtom(orbital_states, species_id, sel.atoms[1][a])])

\* Entries before the first one whose symbol the mapping lacks
ResolvedPrefix(selections, species_mapping) ==
    IF \E j \in 1..Len(selections) : selections[j].species \notin DOMAIN species_mapping
    THEN (CHOOSE j \in 1..Len(selections) :
            /\ selections[j].species \notin DOMAIN species_mapping
            /\ \A i \in 1..(j - 1) : selections[i].species \in DOMAIN species_mapping) - 1
    ELSE Len(selections)

\* Variant: an entry whose symbol the mapping lacks selects nothing
ExtractSelections_SkipUnknown(selections, species_mapping, orbital_states) ==
    [panic |-> FALSE,
     entries |-> [j \in 1..Len(selections) |->
                    IF selections[j].species \in DOMAIN species_mapping
                    THEN SelectionIndices(selections[j],
                                          species_mapping[selections[j].species],
                                          orbital_states)
                    ELSE <<>>]]

\* extract_selections: expect() panics at the first unresolved symbol;
\* entries holds what each closure call before it returned
ExtractSelections(selections, species_mapping, orbital_states) ==
    [panic |-> ResolvedPrefix(selections, species_mapping) < Len(selections),
     entries |-> [j \in 1..ResolvedPrefix(selections, species_mapping) |->
                    SelectionIndices(selections[j],
                                     species_mapping[selections[j].species],
                                     orbital_states)]]

\* sum_weights_per_eigenvalue: one weight per element of indices
RECURSIVE SumWeightsPerEigenvalue(_, _)
SumWeightsPerEigenvalue(indices, weights) ==
    IF indices = <<>> THEN 0
    ELSE weights[Head(indices) + 1] + SumWeightsPerEigenvalue(Tail(indices), weights)

\* The closure handed to map_on_data_of_eigenvalue
ChannelsOf(angular_indices, weights) ==
    [s |-> SumWeightsPerEigenvalue(angular_indices[1], weights),
     p |-> SumWeightsPerEigenvalue(angular_indices[2], weights),
     d |-> SumWeightsPerEigenvalue(angular_indices[3], weights),
     f |-> SumWeightsPerEigenvalue(angular_indices[4], weights)]

MapOnDataOfEigenvalue(data, angular_indices) ==
    [tag |-> data.tag,
     channels |-> [c \in 1..Len(data.channels) |->
                     [k \in 1..Len(data.channels[c]) |->
                        [e \in 1..Len(data.channels[c][k]) |->
                           ChannelsOf(angular_indices, data.channels[c][k][e])]]]]

ProjectInit ==
    /\ pcfg \in ProjectorConfigs
    /\ pmapping \in SpeciesMappings
    /\ pweights \in {PDOSWeightsOf(l) : l \in ProjectLayouts}
    /\ pstep = "select"
    /\ pentries = <<>> /\ selected = <<>> /\ angular = <<>> /\ projected = <<>>
    /\ CodecIdle
    /\ WeightsIdle
    /\ BandsIdle
    /\ PdosIdle
    /\ GridIdle
    /\ ReduceIdle

\* selected_orbital_ids with selections: None
SelectAll ==
    /\ pstep = "select"
    /\ pcfg.selections = <<>>
    /\ selected' = [i \in 1..Len(pweights.orbital_states) |-> i - 1]
    /\ pstep' = "partition"
    /\ UNCHANGED <<pcfg, pmapping, pweights, pentries, angular, projected,
                   cvars, wvars, bvars, dvars, gvars, rvars>>

\* selected_orbital_ids with selections: Some(list)
SelectEntries ==
    /\ pstep = "select"
    /\ pcfg.selections # <<>>
    /\ \E r \in {ExtractSelections(pcfg.selections[1], pmapping, pweights.orbital_states)} :
          /\ pentries' = r.entries
          /\ IF r.panic
             THEN pstep' = "panic" /\ selected' = <<>>
             ELSE pstep' = "partition" /\ selected' = Concat(r.entries)
    /\ UNCHANGED <<pcfg, pmapping, pweights, angular, projected,
                   cvars, wvars, bvars, dvars, gvars, rvars>>

\* angular_indices
PartitionByAngular ==
    /\ pstep = "partition"
    /\ angular' =
          [a \in 1..4 |->
             SelectSeq(selected,
                       LAMBDA idx :
                          pweights.orbital_states[idx + 1].angular_momentum = AngularOrder[a])]
    /\ pstep' = "sum"
    /\ UNCHANGED <<pcfg, pmapping, pweights, pentries, selected, projected,
                   cvars, wvars, bvars, dvars, gvars, rvars>>

\* map_on_data_of_eigenvalue and the return
SumChannels ==
    /\ pstep = "sum"
    /\ projected' = <<MapOnDataOfEigenvalue(pweights.orbital_weights, angular)>>
    /\ pstep' = "done"
    /\ UNCHANGED <<pcfg, pmapping, pweights, pentries, selected, angular,
                   cvars, wvars, bvars, dvars, gvars, rvars>>

ProjectNext == SelectAll \/ SelectEntries \/ PartitionByAngular \/ SumChannels

SpecProject == ProjectInit /\ [][ProjectNext]_vars

\* Indices the selection entry sel asks for, as a set
EntryTarget(sel) ==
    {i \in 0..(Len(pweights.orbital_states) - 1) :
        /\ pweights.orbital_states[i + 1].species_id = pmapping[sel.species]
        /\ \/ sel.atoms = <<>>
           \/ \E a \in 1..Len(sel.atoms[1]) :
                 sel.atoms[1][a] = pweights.orbital_states[i + 1].ion_id}

SeqRange(s) == {s[i] : i \in 1..Len(s)}

\* C14: once the selection is made, each entry contributed exactly the
\* indices whose species_id is the entry's mapped id and whose ion_id is in
\* the entry's atom list (any ion when the entry has none); with no
\* selections at all the selected indices are 0..num_orbitals-1, each once.
C14_SelectedAreTheMatching ==
    pstep \in {"partition", "sum", "done"} =>
        IF pcfg.selections = <<>>
        THEN selected = [i \in 1..Len(pweights.orbital_states) |-> i - 1]
        ELSE /\ Len(pentries) = Len(pcfg.selections[1])
             /\ \A j \in 1..Len(pentries) :
                   SeqRange(pentries[j]) = EntryTarget(pcfg.selections[1][j])
             /\ SeqRange(selected) = UNION {SeqRange(pentries[j]) : j \in 1..Len(pentries)}

C14_Witness ==
    /\ pstep = "done"
    /\ pcfg.selections # <<>>
    /\ Len(pcfg.selections[1]) = 2
    /\ pcfg.selections[1][1].atoms = << <<2>> >>
    /\ pentries[1] = <<1>>
    /\ pentries[2] = <<2, 3>>


\* The sum of the weights at the indices of a set, each index once
RECURSIVE SumOverSet(_, _)
SumOverSet(S, weights) ==
    IF S = {} THEN 0
    ELSE LET i == CHOOSE x \in S : TRUE
         IN  weights[i + 1] + SumOverSet(S \ {i}, weights)

\* The selected indices whose orbital has angular momentum am
SelectedWith(am) ==
    {i \in SeqRange(selected) : pweights.orbital_states[i + 1].angular_momentum = am}

\* C15: at every (spin channel, k-point, eigenvalue) position of the weight
\* table the returned AngularChannels has s, p, d, f equal to the sum of the
\* weights at the selected indices of angular momentum S, P, D, F, and 0
\* where no selected index has that angular momentum.
C15_ChannelsAreSubsetSums ==
    pstep = "done" =>
        /\ projected[1].tag = pweights.orbital_weights.tag
        /\ Len(projected[1].channels) = Len(pweights.orbital_weights.channels)
        /\ \A c \in 1..Len(projected[1].channels) :
              /\ Len(projected[1].channels[c]) = Len(pweights.orbital_weights.channels[c])
              /\ \A k \in 1..Len(projected[1].channels[c]) :
                    /\ Len(projected[1].channels[c][k]) =
                          Len(pweights.orbital_weights.channels[c][k])
                    /\ \A e \in 1..Len(projected[1].channels[c][k]) :
                          projected[1].channels[c][k][e] =
                             [s |-> SumOverSet(SelectedWith("S"),
                                               pweights.orbital_weights.channels[c][k][e]),
                              p |-> SumOverSet(SelectedWith("P"),
                                               pweights.orbital_weights.channels[c][k][e]),
                              d |-> SumOverSet(SelectedWith("D"),
                                               pweights.orbital_weights.channels[c][k][e]),
                              f |-> SumOverSet(SelectedWith("F"),
                                               pweights.orbital_weights.channels[c][k][e])]

\* C16: when the selected indices are partitioned by angular momentum no
\* index occurs twice, so every selected orbital is summed exactly once.
C16_PartitionHasNoRepeats ==
    pstep \in {"sum", "done"} =>
        \A a \in 1..4 : \A i, j \in 1..Len(angular[a]) :
            i # j => angular[a][i] # angular[a][j]

\* C17: when a selection entry names a symbol the mapping lacks, the
\* projection stops in a panic; it never partitions, sums or returns
\* projected weights.
C17_UnmappedSymbolFailsFast ==
    (/\ pstep # "idle"
     /\ pcfg.selections # <<>>
     /\ \E j \in 1..Len(pcfg.selections[1]) :
           pcfg.selections[1][j].species \notin DOMAIN pmapping) =>
        /\ pstep \in {"select", "panic"}
        /\ selected = <<>>
        /\ angular = <<>>
        /\ projected = <<>>

C17_Witness ==
    /\ pstep = "panic"
    /\ Len(pcfg.selections[1]) = 2
    /\ pcfg.selections[1][2].species = "X"
    /\ Len(pentries) = 1
    /\ pentries[1] # <<>>
    /\ projected = <<>>


---------------------------------------------------------------------------
(* SpecPdos: pdos_compute::calculate_pdos.  Arithmetic is exact.  An       *)
(* energy in eV is a linear form one + h * HATREE_TO_EV with integer       *)
(* coefficients, its square the coefficients of 1, HATREE_TO_EV and        *)
(* HATREE_TO_EV^2.  A result value is a sum of exponentials in units of    *)
(* norm = 1 / (smearing * sqrt(2 pi)): a function from the exponent,       *)
(* -num / (den * smearing^2), to its non-zero integer coefficient.  Two    *)
(* such sums are equal for every smearing exactly when they are the same   *)
(* function.                                                               *)

MaxDosK == 2       \* k-points of a band structure or of projected weights
MaxDosE == 2       \* eigenvalues of a k-point
MaxGrid == 2       \* points of the energy grid

NumChannels(tag) == IF tag = "SpinPolarized" THEN 2 ELSE 1

\* Variant: a tag mismatch pairs the channels both sides have
MapPair_Lenient(lhs, rhs) ==
    <<[tag |-> lhs.tag,
       channels |-> [c \in 1..Min2(Len(lhs.channels), Len(rhs.channels)) |->
                       <<lhs.channels[c], rhs.channels[c]>>]]>>

\* SpinData::map_pair before f is applied: <<the SpinData of argument
\* pairs>>, or <<>> where unimplemented!() panics
MapPair(lhs, rhs) ==
    IF lhs.tag = rhs.tag
    THEN <<[tag |-> lhs.tag,
            channels |-> [c \in 1..Len(lhs.channels) |->
                            <<lhs.channels[c], rhs.channels[c]>>]]>>
    ELSE <<>>

\* (eigenvalue - e_fermi) * HATREE_TO_EV
Shift(eigenvalue, e_fermi) == [one |-> 0, h |-> eigenvalue - e_fermi]

\* The closure of the first map_pair
ShiftChannel(kpts, e_fermi) ==
    [k \in 1..Len(kpts) |-> [e \in 1..Len(kpts[k]) |-> Shift(kpts[k][e], e_fermi)]]

\* &energy_arr - eigen, at one grid point
EDelta(grid_point, eigen) == [one |-> grid_point - eigen.one, h |-> 0 - eigen.h]

Neg(d) == [one |-> 0 - d.one, h |-> 0 - d.h]

\* powi(2)
Square(d) == <<d.one * d.one, 2 * d.one * d.h, d.h * d.h>>

\* two_sigma_sq = 2.0 * smearing.powi(2), in units of smearing^2
TwoSigmaSq == 2

\* exp(-num / (den * smearing^2)); exp(0) is the same whatever den
Exp(num, den) ==
    IF num = <<0, 0, 0>> THEN [num |-> num, den |-> 1] ELSE [num |-> num, den |-> den]

\* (-0.5 * ((-d).powi(2) / two_sigma_sq)).exp()
GaussianSmearing(d) == Exp(Square(Neg(d)), 2 * TwoSigmaSq)

Zero == [x \in {} |-> 0]

\* coefficient * norm * exponential
Term(coefficient, exponential) ==
    IF coefficient = 0 THEN Zero ELSE [x \in {exponential} |-> coefficient]

Coefficient(v, x) == IF x \in DOMAIN v THEN v[x] ELSE 0

Plus(v, w) ==
    [x \in {y \in DOMAIN v \cup DOMAIN w : Coefficient(v, y) + Coefficient(w, y) # 0} |->
        Coefficient(v, x) + Coefficient(w, x)]

Times(v, n) == IF n = 0 THEN Zero ELSE [x \in DOMAIN v |-> v[x] * n]

\* Array2::zeros((4, energy_grid.len()))
Zeros(n) == [r \in 1..4 |-> [j \in 1..n |-> Zero]]

ArrayPlus(a, b) == [r \in 1..4 |-> [j \in 1..Len(a[r]) |-> Plus(a[r][j], b[r][j])]]

\* e_delta.mapv(|d| kw_val * norm * gaussian_smearing)
FactorArr(kw_val, eigen, energy_grid) ==
    [j \in 1..Len(energy_grid) |->
        Term(kw_val, GaussianSmearing(EDelta(energy_grid[j], eigen)))]

\* local: the rows factor_arr * am_weights.{s, p, d, f}
Local(factor_arr, am_weights) ==
    << [j \in 1..Len(factor_arr) |-> Times(factor_arr[j], am_weights.s)],
       [j \in 1..Len(factor_arr) |-> Times(factor_arr[j], am_weights.p)],
       [j \in 1..Len(factor_arr) |-> Times(factor_arr[j], am_weights.d)],
       [j \in 1..Len(factor_arr) |-> Times(factor_arr[j], am_weights.f)] >>

\* kpoint_result: the reduce over the zip of factors and weights_k, from
\* its e-th pair on
RECURSIVE KpointResult(_, _, _, _, _)
KpointResult(eigen_k, weights_k, kw_val, energy_grid, e) ==
    IF e > Min2(Len(eigen_k), Len(weights_k))
    THEN Zeros(Len(energy_grid))
    ELSE ArrayPlus(Local(FactorArr(kw_val, eigen_k[e], energy_grid), weights_k[e]),
                   KpointResult(eigen_k, weights_k, kw_val, energy_grid, e + 1))

\* Variant: the rows are read against the grid backwards
ToPDOSResult_Reversed(res) ==
    [s |-> [j \in 1..Len(res[1]) |-> res[1][Len(res[1]) + 1 - j]],
     p |-> [j \in 1..Len(res[2]) |-> res[2][Len(res[2]) + 1 - j]],
     d |-> [j \in 1..Len(res[3]) |-> res[3][Len(res[3]) + 1 - j]],
     f |-> [j \in 1..Len(res[4]) |-> res[4][Len(res[4]) + 1 - j]]]

\* PDOSResult { s: result.row(0).to_vec(), .. }
ToPDOSResult(res) == [s |-> res[1], p |-> res[2], d |-> res[3], f |-> res[4]]

\* KpointWeight::value
KpointValue(kw) == kw

\* BandStructure of a generator record: k-point k has weight k, channel c
\* has Fermi energy c - 1, eigenvalues are 0, 1 or 2 Hartree
DosBand(g) ==
    [kpoint_weights |-> [k \in 1..g.wnk |-> k],
     eigenvalues |->
        [tag |-> g.tag,
         channels |-> [c \in 1..NumChannels(g.tag) |->
                         [k \in 1..g.nk |->
                            [e \in 1..g.ne |-> (g.seed + c * k + e) % 3]]]],
     fermi_energy |->
        [tag |-> g.ftag,
         channels |-> [c \in 1..NumChannels(g.ftag) |-> c - 1]]]

\* Projected weights of a generator record
DosProjected(g) ==
    [tag |-> g.ptag,
     channels |-> [c \in 1..NumChannels(g.ptag) |->
                     [k \in 1..g.pnk |->
                        [e \in 1..g.pne |->
                           [s |-> c, p |-> k, d |-> e - 1, f |-> (c + k + e) % 2]]]]]

DosGens ==
    [tag : {"NonPolarized", "SpinPolarized"}, ftag : {"NonPolarized", "SpinPolarized"},
     ptag : {"NonPolarized", "SpinPolarized"}, nk : 1..MaxDosK, ne : 1..MaxDosE,
     pnk : 1..MaxDosK, pne : 1..MaxDosE, wnk : 1..MaxDosK, seed : 0..2]

\* Energy grids in eV: consecutive integers from -1 or from 0
DosGrids == {[j \in 1..n |-> start + j - 1] : n \in 0..MaxGrid, start \in {-1, 0}}

PdosInit ==
    /\ \E g \in DosGens : dband = DosBand(g) /\ dproj = DosProjected(g)
    /\ dgrid \in DosGrids
    /\ dstep = "shift"
    /\ dshifted = <<>> /\ dchan = 0 /\ dk = 0 /\ dacc = <<>>
    /\ dfinished = <<>> /\ dresult = <<>>
    /\ CodecIdle
    /\ WeightsIdle
    /\ BandsIdle
    /\ ProjectIdle
    /\ GridIdle
    /\ ReduceIdle

\* band_eigenvalues.map_pair(fermi_energys, ..)
ShiftEigenvalues ==
    /\ dstep = "shift"
    /\ \E r \in {MapPair(dband.eigenvalues, dband.fermi_energy)} :
          IF r = <<>>
          THEN dstep' = "panic" /\ UNCHANGED dshifted
          ELSE /\ dstep' = "pair"
               /\ dshifted' =
                     <<[tag |-> r[1].tag,
                        channels |-> [c \in 1..Len(r[1].channels) |->
                                        ShiftChannel(r[1].channels[c][1],
                                                     r[1].channels[c][2])]]>>
    /\ UNCHANGED <<dband, dproj, dgrid, dchan, dk, dacc, dfinished, dresult,
                   cvars, wvars, bvars, pvars, gvars, rvars>>

\* .map_pair(projected_weights, ..): the match on the two tags, and the
\* entry of calc_spin_pdos for the first channel
PairWithWeights ==
    /\ dstep = "pair"
    /\ IF MapPair(dshifted[1], dproj) = <<>>
       THEN dstep' = "panic" /\ UNCHANGED <<dchan, dacc>>
       ELSE /\ dstep' = "accumulate"
            /\ dchan' = 1
            /\ dacc' = Zeros(Len(dgrid))
    /\ UNCHANGED <<dband, dproj, dgrid, dshifted, dk, dfinished, dresult,
                   cvars, wvars, bvars, pvars, gvars, rvars>>

\* Variant: the last triple of the zip is never reached
ZipLen_DropLast(c) ==
    IF Min2(Min2(Len(dshifted[1].channels[c]), Len(dproj.channels[c])),
            Len(dband.kpoint_weights)) = 0
    THEN 0
    ELSE Min2(Min2(Len(dshifted[1].channels[c]), Len(dproj.channels[c])),
              Len(dband.kpoint_weights)) - 1

\* Triples the zip of eigenvalues, pdos_weights and kpoint_weights yields
ZipLen(c) ==
    Min2(Min2(Len(dshifted[1].channels[c]), Len(dproj.channels[c])),
        Len(dband.kpoint_weights))

\* One turn of the for_each over k-points: result += &kpoint_result
AddKpoint ==
    /\ dstep = "accumulate"
    /\ dk < ZipLen(dchan)
    /\ dk' = dk + 1
    /\ dacc' = ArrayPlus(dacc,
                         KpointResult(dshifted[1].channels[dchan][dk + 1],
                                      dproj.channels[dchan][dk + 1],
                                      KpointValue(dband.kpoint_weights[dk + 1]),
                                      dgrid, 1))
    /\ UNCHANGED <<dband, dproj, dgrid, dstep, dshifted, dchan, dfinished, dresult,
                   cvars, wvars, bvars, pvars, gvars, rvars>>

\* calc_spin_pdos returns; map_pair goes on to the down channel or returns
FinishChannel ==
    /\ dstep = "accumulate"
    /\ dk = ZipLen(dchan)
    /\ dfinished' = Append(dfinished, ToPDOSResult(dacc))
    /\ IF dchan < Len(dshifted[1].channels)
       THEN /\ dchan' = dchan + 1
            /\ dk' = 0
            /\ dacc' = Zeros(Len(dgrid))
            /\ UNCHANGED <<dstep, dresult>>
       ELSE /\ dstep' = "done"
            /\ dresult' = <<[tag |-> dshifted[1].tag,
                             channels |-> Append(dfinished, ToPDOSResult(dacc))]>>
            /\ UNCHANGED <<dchan, dk, dacc>>
    /\ UNCHANGED <<dband, dproj, dgrid, dshifted, cvars, wvars, bvars, pvars, gvars, rvars>>

PdosNext == ShiftEigenvalues \/ PairWithWeights \/ AddKpoint \/ FinishChannel

SpecPdos == PdosInit /\ [][PdosNext]_vars


\* The channel r (s, p, d, f as 1..4) of an AngularChannels or PDOSResult
ChannelAt(rec, r) == IF r = 1 THEN rec.s ELSE IF r = 2 THEN rec.p ELSE IF r = 3 THEN rec.d ELSE rec.f

\* Sum over the eigenvalues, from the e-th on, of k-point k of channel c of
\* kpoint_weight * norm * exp(-d^2 / (den * smearing^2)) * projected
\* weight, d the distance of grid point j from the shifted eigenvalue
RECURSIVE SumOverEigenvalues(_, _, _, _, _, _)
SumOverEigenvalues(c, k, e, r, j, den) ==
    IF e > Len(dband.eigenvalues.channels[c][k])
    THEN Zero
    ELSE Plus(Term(KpointValue(dband.kpoint_weights[k])
                      * ChannelAt(dproj.channels[c][k][e], r),
                   Exp(Square(EDelta(dgrid[j],
                                     Shift(dband.eigenvalues.channels[c][k][e],
                                           dband.fermi_energy.channels[c]))),
                       den)),
              SumOverEigenvalues(c, k, e + 1, r, j, den))

\* The same sum over all k-points of channel c from the k-th on
RECURSIVE SumOverKpoints(_, _, _, _, _)
SumOverKpoints(c, k, r, j, den) ==
    IF k > Len(dband.eigenvalues.channels[c])
    THEN Zero
    ELSE Plus(SumOverEigenvalues(c, k, 1, r, j, den),
              SumOverKpoints(c, k + 1, r, j, den))

\* The projected weights have an entry for every eigenvalue of the bands
SameShape ==
    /\ dband.eigenvalues.tag = dband.fermi_energy.tag
    /\ dband.eigenvalues.tag = dproj.tag
    /\ \A c \in 1..Len(dproj.channels) :
          /\ Len(dband.kpoint_weights) = Len(dband.eigenvalues.channels[c])
          /\ Len(dproj.channels[c]) = Len(dband.eigenvalues.channels[c])
          /\ \A k \in 1..Len(dproj.channels[c]) :
                Len(dproj.channels[c][k]) = Len(dband.eigenvalues.channels[c][k])

\* C18: in the returned result every channel of every spin channel has at
\* grid point g the sum over all k-points and eigenvalues of
\* kpoint_weight * G(g - shifted eigenvalue) * projected weight, G the
\* Gaussian of the given smearing, norm * exp(-x^2 / (2 smearing^2)).
C18_ResultIsGaussianSum ==
    (dstep = "done" /\ SameShape) =>
        \A c \in 1..Len(dresult[1].channels) : \A r \in 1..4 : \A j \in 1..Len(dgrid) :
            ChannelAt(dresult[1].channels[c], r)[j] = SumOverKpoints(c, 1, r, j, 2)


\* C19: the returned SpinData has the tag of the eigenvalues and of the
\* projected weights, one PDOSResult per channel of that tag, and each of s,
\* p, d, f has one value per point of energy_grid, the j-th value made of
\* contributions at the j-th grid point.
C19_OneValuePerGridPoint ==
    dstep = "done" =>
        /\ dresult[1].tag = dband.eigenvalues.tag
        /\ dresult[1].tag = dproj.tag
        /\ Len(dresult[1].channels) = NumChannels(dresult[1].tag)
        /\ \A c \in 1..Len(dresult[1].channels) : \A r \in 1..4 :
              /\ Len(ChannelAt(dresult[1].channels[c], r)) = Len(dgrid)
              /\ \A j \in 1..Len(dgrid) :
                    \A x \in DOMAIN ChannelAt(dresult[1].channels[c], r)[j] :
                       \E k \in 1..Len(dshifted[1].channels[c]) :
                          \E e \in 1..Len(dshifted[1].channels[c][k]) :
                             x = GaussianSmearing(EDelta(dgrid[j],
                                                         dshifted[1].channels[c][k][e]))

C19_Witness ==
    /\ dstep = "done"
    /\ dresult[1].tag = "SpinPolarized"
    /\ Len(dgrid) = 2
    /\ Len(dresult[1].channels[2].s) = 2
    /\ dresult[1].channels[2].s[1] # Zero
    /\ dresult[1].channels[2].s[1] # dresult[1].channels[2].s[2]

\* Some pair of SpinData that calculate_pdos hands to map_pair differs in tag
TagsDiffer ==
    \/ dband.eigenvalues.tag # dband.fermi_energy.tag
    \/ dband.eigenvalues.tag # dproj.tag

\* C20: map_pair on two SpinData of different tags panics, so
\* calculate_pdos on a band structure and projected weights of different
\* spin modes returns nothing; with equal tags it never panics, runs to its
\* return, and every SpinData it makes has that tag.
C20_MismatchedTagsPanic ==
    dstep # "idle" =>
        /\ TagsDiffer => (dstep \in {"shift", "pair", "panic"} /\ dfinished = <<>>
                          /\ dresult = <<>>)
        /\ dstep = "panic" => TagsDiffer
        /\ dstep = "accumulate" => (/\ dchan \in 1..Len(dshifted[1].channels)
                                    /\ dk \in 0..ZipLen(dchan))
        /\ dshifted # <<>> => dshifted[1].tag = dband.eigenvalues.tag
        /\ dresult # <<>> => (dresult[1].tag = dband.eigenvalues.tag
                              /\ dresult[1].tag = dproj.tag)

C20_Witness ==
    /\ dstep = "panic"
    /\ dshifted # <<>>
    /\ dband.eigenvalues.tag = dband.fermi_energy.tag
    /\ dband.eigenvalues.tag # dproj.tag

---------------------------------------------------------------------------
(* SpecGrid: the two places that build an energy grid,                     *)
(* EnergyGridConfig::get_energy_grid and the run command                   *)
(* (determine_energy_range, then generate_grid).  Energies are integers    *)
(* in eV; a grid value is the fraction num / den, or NaN.                  *)

MaxEv == 2         \* largest magnitude of a configured or band energy
MaxPpe == 2        \* largest points_per_ev

\* Option::unwrap_or
UnwrapOr(opt, default) == IF opt = <<>> THEN default ELSE opt[1]

NaN == [nan |-> TRUE, num |-> 0, den |-> 0]

\* min + (i / (total_points - 1)) * total_ev; 0.0 / 0.0 is NaN
GridValue(min, total_ev, i, total_points) ==
    IF total_points = 1 THEN NaN
    ELSE [nan |-> FALSE, num |-> min * (total_points - 1) + i * total_ev,
          den |-> total_points - 1]

\* (0..total_points).map(..).collect()
GridPoints(min, total_ev, total_points) ==
    [j \in 1..total_points |-> GridValue(min, total_ev, j - 1, total_points)]

\* `x as usize` on an f64 holding an integer: a negative value gives 0
AsUsize(x) == IF x < 0 THEN 0 ELSE x

\* EnergyGridConfig::get_energy_grid
GetEnergyGridOf(cfg) ==
    IF UnwrapOr(cfg.max, 20) - UnwrapOr(cfg.min, -20) < 0
    THEN [ok |-> FALSE, err |-> "ReverseMinMax", grid |-> <<>>]
    ELSE [ok |-> TRUE, err |-> "none",
          grid |-> GridPoints(UnwrapOr(cfg.min, -20),
                              UnwrapOr(cfg.max, 20) - UnwrapOr(cfg.min, -20),
                              AsUsize((UnwrapOr(cfg.max, 20) - UnwrapOr(cfg.min, -20))
                                         * cfg.points_per_ev) + 1)]

\* determine_energy_range: the configured bound where there is one
DetermineEnergyRangeOf(band, cfg) ==
    <<UnwrapOr(cfg.min, band[1]), UnwrapOr(cfg.max, band[2])>>

\* generate_grid: no comparison of e_min with e_max, no error
GenerateGridOf(e_min, e_max, points_per_ev) ==
    [ok |-> TRUE, err |-> "none",
     grid |-> GridPoints(e_min, e_max - e_min,
                         AsUsize((e_max - e_min) * points_per_ev) + 1)]

GridEnergies == {<<>>} \cup {<<e>> : e \in (0 - MaxEv)..MaxEv}

GridConfigs == [min : GridEnergies, max : GridEnergies, points_per_ev : 1..MaxPpe]

\* energy_range of a band structure: min <= max
BandRanges == {<<lo, hi>> : lo \in -1..0, hi \in 0..1}

GridInit ==
    /\ gcfg \in GridConfigs
    /\ gband \in BandRanges
    /\ gpath \in {"config", "run"}
    /\ gstep = "start"
    /\ grange = <<>>
    /\ gout = <<>>
    /\ CodecIdle
    /\ WeightsIdle
    /\ BandsIdle
    /\ ProjectIdle
    /\ PdosIdle
    /\ ReduceIdle

\* A caller of EnergyGridConfig::get_energy_grid
GetEnergyGrid ==
    /\ gstep = "start"
    /\ gpath = "config"
    /\ gout' = GetEnergyGridOf(gcfg)
    /\ gstep' = "done"
    /\ UNCHANGED <<gcfg, gband, gpath, grange, cvars, wvars, bvars, pvars, dvars, rvars>>

\* run: let (e_min, e_max) = determine_energy_range(..)
DetermineEnergyRange ==
    /\ gstep = "start"
    /\ gpath = "run"
    /\ grange' = DetermineEnergyRangeOf(gband, gcfg)
    /\ gstep' = "range"
    /\ UNCHANGED <<gcfg, gband, gpath, gout, cvars, wvars, bvars, pvars, dvars, rvars>>

\* run: let energy_grid = generate_grid(e_min, e_max, points_per_ev)
GenerateGrid ==
    /\ gstep = "range"
    /\ gout' = GenerateGridOf(grange[1], grange[2], gcfg.points_per_ev)
    /\ gstep' = "done"
    /\ UNCHANGED <<gcfg, gband, gpath, grange, cvars, wvars, bvars, pvars, dvars, rvars>>

GridNext == GetEnergyGrid \/ DetermineEnergyRange \/ GenerateGrid

SpecGrid == GridInit /\ [][GridNext]_vars

\* The bounds the grid is built from have max < min
BoundsReversed ==
    IF gpath = "config"
    THEN UnwrapOr(gcfg.max, 20) < UnwrapOr(gcfg.min, -20)
    ELSE gstep \in {"range", "done"} /\ grange[2] < grange[1]

\* C21: on both paths, bounds with max < min end in the ReverseMinMax error
\* and no grid is made from them.
C21_ReversedBoundsRejected ==
    (gstep = "done" /\ BoundsReversed) =>
        /\ ~gout.ok
        /\ gout.err = "ReverseMinMax"
        /\ gout.grid = <<>>

---------------------------------------------------------------------------
\* C22: the orbital_states of every returned PDOSWeights has length
\* num_orbitals, and its i-th element is made of the i-th elements of
\* orbital_species, orbital_ion and orbital_am of the parsed header.
C22_OrbitalStatesFollowHeader ==
    (pc = "done" /\ result.ok) =>
        /\ Len(result.value.orbital_states) = header.num_orbitals
        /\ \A i \in 1..Len(result.value.orbital_states) :
              result.value.orbital_states[i] =
                 [species_id |-> header.orbital_species[i],
                  ion_id |-> header.orbital_ion[i],
                  angular_momentum |-> header.orbital_am[i]]

---------------------------------------------------------------------------
(* Spin blocks and spin-index fields, checked under SpecWeights.           *)

\* where the payload of the spin-index record of every spin block starts
SpinIndexStarts(g) ==
    LET perK == 1 + g.ns * (2 + g.nb)
        recs == {7 + (k - 1) * perK + 1 + (s - 1) * (2 + g.nb) + 1 :
                    k \in 1..g.nk, s \in 1..g.ns}
    IN  UNION {{shift + starts[r] + 4 : r \in recs} :
               shift \in {Len(FullFile(g)) - Len(BodyBytes(g))},
               starts \in {FrameStarts(BodyBytes(g), 0)}}

\* the offset t lies in the payload of a spin-index record
InSpinIndex(t) == \E o \in SpinIndexStarts(gen.g) : t \in o..(o + 3)

\* the spin index of the record the offset t lies in, as the parser reads it
PokedSpinIndex(t) ==
    U32(Slice(input, CHOOSE o \in {t - 3, t - 2, t - 1, t} : o \in SpinIndexStarts(gen.g), 4))

(* C24: with num_spins 2 the first spin block read of every k-point is the *)
(* up channel and the second the down channel, whatever the spin-index     *)
(* fields say (1 then 2, 2 then 1, or the same index twice); a spin index  *)
(* that is neither 1 nor 2 makes the parse fail with the SpinIndex error.  *)
C24_SpinBlocksByPosition ==
    /\ (pc = "done" /\ result.ok /\ gen.g.ns = 2
          /\ (gen.mut.kind = "none"
                \/ (gen.mut.kind = "poke" /\ InSpinIndex(gen.mut.at)))) =>
          /\ header.num_spins = "Two"
          /\ Channels = ExpectedWeights(gen.g).orbital_weights.channels
          /\ \A k \in DOMAIN kpoints : \A s \in 1..2 :
                Channels[s][k] = PerSpinToPerKptData(kpoints[k].spins[s])
    /\ (pc = "done" /\ gen.mut.kind = "poke" /\ InSpinIndex(gen.mut.at)
          /\ PokedSpinIndex(gen.mut.at) \notin {1, 2}) =>
          /\ result = Err("SpinIndex")
          /\ failed = "spin_index"

\* a file with the spin indices 2 then 1 and different weights in its two
\* spin blocks has been parsed
C24_Witness ==
    /\ pc = "done" /\ result.ok
    /\ gen.g.swap /\ gen.g.nb >= 1
    /\ header.num_spins = "Two"
    /\ kpoints[1].spins[1].index = "Two" /\ kpoints[1].spins[2].index = "One"
    /\ Channels[1] # Channels[2]
    /\ Channels[1][1] = PerSpinToPerKptData(kpoints[1].spins[1])

---------------------------------------------------------------------------
(* Reads with an expected size, checked under SpecWeights.                 *)

\* the stages of the parse that read a record of a size known beforehand
FixedReads == HeaderScalars \cup HeaderVectors \cup {"kpoint", "spin_index", "nbands_occ", "band"}

\* the expected size e of the read at the stage pc is N * len: a scalar is one
\* element of 4 bytes, a vector num_orbitals elements of 4 or 8 bytes, the
\* k-point record one element of 28 bytes
ElemSizeAt == CASE pc = "band" -> 8 [] pc = "kpoint" -> 28 [] OTHER -> 4
ElemCountAt == IF pc \in HeaderVectors \cup {"band"} THEN header.num_orbitals ELSE 1

\* a whole leading size marker is in front of the cursor and it is not N * len
\* (compared by division: N * len itself can exceed the integers of the checker)
LeadingMarkerIsNot(N, len) ==
    /\ Len(input) - pos >= 4
    /\ \E m \in {U32(Slice(input, pos, 4))} : m % N # 0 \/ m \div N # len

(* C25: when a record is read with an expected size e and its leading size *)
(* marker is not e, the read fails (with the one error parse_record has)   *)
(* and no payload byte is interpreted: the parse ends with that error and  *)
(* nothing is added to the header or to the table.  This holds for the u32 *)
(* scalars, the vectors (e = N * len) and the 28-byte k-point record; the  *)
(* failed f64 read of the version leaves the cursor where it was.          *)
C25_UnexpectedSizeRefused ==
    [][/\ (pc \in FixedReads /\ LeadingMarkerIsNot(ElemSizeAt, ElemCountAt)) =>
            /\ pc' = "done"
            /\ result' = Err("HelperError")
            /\ header' = header /\ kpoints' = kpoints
            /\ curKpoint' = curKpoint /\ curSpin' = curSpin
       /\ (pc = "version" /\ LeadingMarkerIsNot(8, 1)) =>
            /\ ~versionOk' /\ pos' = pos
      ]_vars

---------------------------------------------------------------------------
(* OrbitalWeight::new on the weights of a parsed file, under SpecWeights.  *)

\* the doubles -0.0000005 and 0.3
F64MinusHalfMicro == F64Samples[2]
F64ThreeTenths == F64Samples[1]

(* C26 as stated: OrbitalWeight::new(-0.0000005) is 0.0 and               *)
(* OrbitalWeight::new(0.3) is 0.3: in every returned table a weight read   *)
(* as -0.0000005 is stored as 0.0 and a weight read as 0.3 as 0.3.         *)
C26_NewClampsSmallNegative ==
    (pc = "done" /\ result.ok) =>
        \A c \in DOMAIN Channels : \A k \in DOMAIN Channels[c] :
            \A b \in DOMAIN Channels[c][k] : \A o \in DOMAIN Channels[c][k][b] :
                \E raw \in {kpoints[k].spins[c].bands[b].weights[o]} :
                    /\ raw = F64MinusHalfMicro => Channels[c][k][b][o] = F64Zero
                    /\ raw = F64ThreeTenths => Channels[c][k][b][o] = F64ThreeTenths

---------------------------------------------------------------------------
(* Angular-momentum codes, checked under SpecWeights.                      *)

\* the stages of the parse at which the header is not complete yet
HeaderStages == {"version", "bin_header"} \cup HeaderScalars \cup HeaderVectors

\* where the n-th record counted from offset p starts
RECURSIVE NthFrameStart(_, _, _)
NthFrameStart(f, p, n) ==
    IF n = 1 THEN p ELSE NthFrameStart(f, p + 8 + U32(Slice(f, p, 4)), n - 1)

\* the codes of the angular-momentum record as they stand in the input: the
\* seventh record after the start of the header, cut into 4-byte integers
RawAmCodes ==
    CHOOSE codes \in {[i \in 1..(U32(Slice(input, p, 4)) \div 4) |->
                          U32(Slice(input, p + 4 * i, 4))] :
                      p \in {NthFrameStart(input, headerStart, 7)}} : TRUE

\* where the payload of the angular-momentum record of an undamaged file starts
AmStart(g) == Len(FullFile(g)) - Len(BodyBytes(g)) + FrameStarts(BodyBytes(g), 0)[7] + 4

\* the overwritten byte lies in the angular-momentum record and the code it
\* lies in is none of 0, 1, 2, 3
PokedAmCodeInvalid ==
    /\ gen.mut.kind = "poke"
    /\ \E a \in {AmStart(gen.g)} :
          /\ gen.mut.at \in a..(a + 4 * gen.g.norb - 1)
          /\ U32(Slice(input, a + 4 * ((gen.mut.at - a) \div 4), 4)) \notin 0..3

(* C27: the conversion of an angular-momentum code succeeds exactly for    *)
(* 0, 1, 2, 3, which give S, P, D, F, and converting the result back gives *)
(* the code; any other code in the angular-momentum vector ends the parse  *)
(* with the AngularMomentum error before a header exists.                  *)
C27_AngularMomentumCodes ==
    /\ (pc \notin HeaderStages /\ failed \notin HeaderStages) =>
          \E raw \in {RawAmCodes} :
             /\ Len(header.orbital_am) = Len(raw)
             /\ \A i \in DOMAIN raw :
                   /\ raw[i] \in 0..3
                   /\ header.orbital_am[i] = <<"S", "P", "D", "F">>[raw[i] + 1]
                   /\ U32FromAngularMomentum(header.orbital_am[i]) = raw[i]
    /\ (pc = "done" /\ result.err = "AngularMomentum") =>
          /\ ~result.ok /\ failed = "orbital_am"
          /\ \E raw \in {RawAmCodes} : \E i \in DOMAIN raw : raw[i] \notin 0..3
          /\ header.orbital_am = <<>> /\ kpoints = <<>>
    /\ (pc = "done" /\ PokedAmCodeInvalid) => result = Err("AngularMomentum")

\* a file with the codes 2 and 3 has been parsed
C27_Witness ==
    /\ pc = "done" /\ result.ok
    /\ RawAmCodes = <<2, 3>>
    /\ header.orbital_am = <<"D", "F">>

---------------------------------------------------------------------------
(* The spin tags of a parsed band structure, checked under SpecBands.      *)

\* the number of spin components the text declares: the third token of the
\* line behind "Number of k-points"
DeclaredSpinComponents == text[Len(KpointCountPat) + 3].v

(* C30: in every BandStructure made from a successfully parsed band file,  *)
(* fermi_energy and eigenvalues carry the same SpinData tag, the tag agrees *)
(* with spin_polarized, and it is SpinPolarized exactly when the file      *)
(* declared 2 spin components; the map_pair of the Fermi-shift step is     *)
(* therefore defined on it.                                                *)
C30_SpinTagsAgree ==
    bstruct # <<>> =>
        /\ bstruct[1].fermi_energy.tag = bstruct[1].eigenvalues.tag
        /\ Len(bstruct[1].fermi_energy.channels) = Len(bstruct[1].eigenvalues.channels)
        /\ bstruct[1].eigenvalues.tag = "SpinPolarized" <=> bstruct[1].spin_polarized = "True"
        /\ bstruct[1].spin_polarized = "True" <=> DeclaredSpinComponents = 2
        /\ MapPair(bstruct[1].eigenvalues, bstruct[1].fermi_energy) # <<>>

\* a text declaring 2 spin components has become a BandStructure
C30_Witness ==
    /\ bstruct # <<>>
    /\ DeclaredSpinComponents = 2
    /\ bstruct[1].fermi_energy.tag = "SpinPolarized"
    /\ Len(bstruct[1].eigenvalues.channels) = 2

---------------------------------------------------------------------------
(* Inputs of unequal length, checked under SpecPdos.                       *)

\* Sum over the first n eigenvalues, from the e-th on, of k-point k of
\* channel c of kpoint_weight * kernel * projected weight, the kernel as
\* calc_spin_pdos computes it
RECURSIVE PairedEigenvalues(_, _, _, _, _, _)
PairedEigenvalues(c, k, e, n, r, j) ==
    IF e > n
    THEN Zero
    ELSE Plus(Term(KpointValue(dband.kpoint_weights[k])
                      * ChannelAt(dproj.channels[c][k][e], r),
                   GaussianSmearing(EDelta(dgrid[j],
                                           Shift(dband.eigenvalues.channels[c][k][e],
                                                 dband.fermi_energy.channels[c])))),
              PairedEigenvalues(c, k, e + 1, n, r, j))

\* The same sum over the first n k-points, from the k-th on, each with the
\* eigenvalues that have a projected weight at their position
RECURSIVE PairedKpoints(_, _, _, _, _)
PairedKpoints(c, k, n, r, j) ==
    IF k > n
    THEN Zero
    ELSE Plus(PairedEigenvalues(c, k, 1,
                                Min2(Len(dband.eigenvalues.channels[c][k]),
                                     Len(dproj.channels[c][k])), r, j),
              PairedKpoints(c, k + 1, n, r, j))

\* the k-points of channel c that have eigenvalues, projected weights and a
\* k-point weight
MinKpoints(c) ==
    Min2(Min2(Len(dband.eigenvalues.channels[c]), Len(dproj.channels[c])),
         Len(dband.kpoint_weights))

\* the three k-point sequences, or the eigenvalues and projected weights of
\* a k-point, differ in length
UnequalLengths ==
    \E c \in 1..Len(dproj.channels) :
        \/ Len(dband.eigenvalues.channels[c]) # Len(dproj.channels[c])
        \/ Len(dband.eigenvalues.channels[c]) # Len(dband.kpoint_weights)
        \/ \E k \in 1..MinKpoints(c) :
              Len(dband.eigenvalues.channels[c][k]) # Len(dproj.channels[c][k])

(* C29: calc_spin_pdos does not fail on inputs of unequal length: k-points *)
(* and, within a k-point, eigenvalues are paired by position, the result   *)
(* is made of the first min(lengths) k-points and the first min(lengths)   *)
(* eigenvalues of each of them, and no surplus entry contributes to it.    *)
C29_PositionalPairing ==
    /\ dstep = "panic" =>
          (dband.eigenvalues.tag # dband.fermi_energy.tag \/ dband.eigenvalues.tag # dproj.tag)
    /\ dstep = "accumulate" => dk <= MinKpoints(dchan)
    /\ dstep = "done" =>
          \A c \in 1..Len(dresult[1].channels) : \A r \in 1..4 : \A j \in 1..Len(dgrid) :
             ChannelAt(dresult[1].channels[c], r)[j] = PairedKpoints(c, 1, MinKpoints(c), r, j)

\* a result has been made of inputs whose three k-point sequences all differ
\* from the longest and whose eigenvalues outnumber the projected weights
C29_Witness ==
    /\ dstep = "done"
    /\ Len(dband.kpoint_weights) < Len(dband.eigenvalues.channels[1])
    /\ Len(dproj.channels[1]) = Len(dband.eigenvalues.channels[1])
    /\ Len(dproj.channels[1][1]) < Len(dband.eigenvalues.channels[1][1])
    /\ Len(dgrid) > 0
    /\ ChannelAt(dresult[1].channels[1], 1)[1] # Zero

---------------------------------------------------------------------------
(* SpecReduce: the parallel reduction over the eigenvalues of one k-point  *)
(* in calc_spin_pdos, and the Sum of AngularChannels.  A double is kept as *)
(* a natural number with FloatBits significant bits: an addition or a      *)
(* multiplication gives the exact result rounded to the nearest such       *)
(* number, ties to the even mantissa, as an f64 does with 53 bits.         *)

FloatBits == 2     \* significant bits of a floating-point number
MaxTasks == 3      \* eigenvalues of the k-point; AngularChannels of a summed list
MaxRGrid == 1      \* points of the energy grid

RECURSIVE Power(_, _)
Power(b, n) == IF n = 0 THEN 1 ELSE b * Power(b, n - 1)

\* the distance between neighbouring floating-point numbers around x
RECURSIVE Ulp(_)
Ulp(x) == IF x < Power(2, FloatBits) THEN 1 ELSE 2 * Ulp(x \div 2)

\* the floating-point number nearest to x, the one with the even mantissa
\* when x lies halfway between two
RoundF64(x) ==
    LET lo == (x \div Ulp(x)) * Ulp(x)
    IN  IF 2 * (x - lo) < Ulp(x) THEN lo
        ELSE IF 2 * (x - lo) > Ulp(x) THEN lo + Ulp(x)
        ELSE IF (lo \div Ulp(x)) % 2 = 0 THEN lo ELSE lo + Ulp(x)

\* a + b and a * b on f64
F64Add(a, b) == RoundF64(a + b)
F64Mul(a, b) == RoundF64(a * b)

\* AngularChannels::zero
AngularChannelsZero == [s |-> 0, p |-> 0, d |-> 0, f |-> 0]

\* Variant: the f of the right-hand side is left out
AngularChannelsAdd_DropF(lhs, rhs) ==
    [s |-> F64Add(lhs.s, rhs.s), p |-> F64Add(lhs.p, rhs.p),
     d |-> F64Add(lhs.d, rhs.d), f |-> lhs.f]

\* impl Add for AngularChannels
AngularChannelsAdd(lhs, rhs) ==
    [s |-> F64Add(lhs.s, rhs.s), p |-> F64Add(lhs.p, rhs.p),
     d |-> F64Add(lhs.d, rhs.d), f |-> F64Add(lhs.f, rhs.f)]

\* impl Add<&AngularChannels> for AngularChannels: self + *rhs
AngularChannelsAddRef(lhs, rhs) == AngularChannelsAdd(lhs, rhs)

\* impl Sum<AngularChannels>: iter.fold(AngularChannels::zero(), |acc, e| acc + e),
\* from the i-th element on
RECURSIVE FoldChannels(_, _, _)
FoldChannels(acc, items, i) ==
    IF i > Len(items) THEN acc
    ELSE FoldChannels(AngularChannelsAdd(acc, items[i]), items, i + 1)

SumOfChannels(items) == FoldChannels(AngularChannelsZero, items, 1)

\* impl Sum<&AngularChannels>: the same fold with acc + &e
RECURSIVE FoldChannelRefs(_, _, _)
FoldChannelRefs(acc, items, i) ==
    IF i > Len(items) THEN acc
    ELSE FoldChannelRefs(AngularChannelsAddRef(acc, items[i]), items, i + 1)

SumOfChannelRefs(items) == FoldChannelRefs(AngularChannelsZero, items, 1)

\* Array2::zeros((4, energy_grid.len())) of doubles
FloatZeros(n) == [r \in 1..4 |-> [j \in 1..n |-> 0]]

\* Variant: the right-hand array overwrites the accumulated one
ReduceOp_Overwrite(acc, e) == e

\* the closure |acc, e| acc + e of the reduce, and result += &kpoint_result
ReduceOp(acc, e) == [r \in 1..4 |-> [j \in 1..Len(acc[r]) |-> F64Add(acc[r][j], e[r][j])]]

\* the closure of the map: local, the rows factor_arr * am_weights.{s, p, d, f}
FloatLocal(factor_arr, am_weights) ==
    << [j \in 1..Len(factor_arr) |-> F64Mul(factor_arr[j], am_weights.s)],
       [j \in 1..Len(factor_arr) |-> F64Mul(factor_arr[j], am_weights.p)],
       [j \in 1..Len(factor_arr) |-> F64Mul(factor_arr[j], am_weights.d)],
       [j \in 1..Len(factor_arr) |-> F64Mul(factor_arr[j], am_weights.f)] >>

\* the sum of two arrays without rounding
ExactPlus(a, b) == [r \in 1..4 |-> [j \in 1..Len(a[r]) |-> a[r][j] + b[r][j]]]

\* doubles the inputs are made of: 0, 1 and the first power of two whose sum
\* with 1 is no floating-point number
FloatSamples == {0, 1, Power(2, FloatBits)}

ChannelSamples ==
    {[s |-> v, p |-> 1, d |-> 0, f |-> 1] : v \in FloatSamples}
        \cup {[s |-> 0, p |-> 1, d |-> 0, f |-> 0]}

\* lists of at most MaxTasks AngularChannels
ChannelLists == UNION {[1..n -> ChannelSamples] : n \in 0..MaxTasks}

\* the (factor_arr, am_weights) pairs of the eigenvalues of a k-point on a
\* grid of n points: the factor at grid point j is j
TaskLists(n) ==
    {[e \in DOMAIN l |-> [factor_arr |-> [j \in 1..n |-> j], am_weights |-> l[e]]] :
        l \in ChannelLists}

\* the partial array of the tasks lo..hi: whether it has been produced, its
\* value, and the sum of the same local arrays without rounding
Segment(lo, hi, done, val, exact) ==
    [lo |-> lo, hi |-> hi, done |-> done, val |-> val, exact |-> exact]

ReduceInit ==
    /\ rkind \in {"reduce", "sum", "sum_refs"}
    /\ IF rkind = "reduce"
       THEN /\ rgrid \in 0..MaxRGrid
            /\ ritems \in TaskLists(rgrid)
            /\ rsegs = [e \in 1..Len(ritems) |->
                          Segment(e, e, FALSE, FloatZeros(rgrid), FloatZeros(rgrid))]
            /\ rstep = "tasks"
            /\ rresult = FloatZeros(rgrid)
       ELSE /\ rgrid = 0
            /\ ritems \in ChannelLists
            /\ rsegs = <<>>
            /\ rstep = "start"
            /\ rresult = <<>>
    /\ rout = <<>>
    /\ CodecIdle
    /\ WeightsIdle
    /\ BandsIdle
    /\ ProjectIdle
    /\ PdosIdle
    /\ GridIdle

\* One task of factors.into_par_iter().zip(weights_k.par_iter()).map(..) runs:
\* it builds its own local array, which enters the fold that starts from
\* the identity Array2::zeros
TaskDone(i) ==
    /\ rkind = "reduce" /\ rstep = "tasks"
    /\ i \in 1..Len(rsegs) /\ ~rsegs[i].done
    /\ \E local \in {FloatLocal(ritems[rsegs[i].lo].factor_arr,
                                ritems[rsegs[i].lo].am_weights)} :
          rsegs' = [rsegs EXCEPT ![i] =
                       Segment(rsegs[i].lo, rsegs[i].hi, TRUE,
                               ReduceOp(FloatZeros(rgrid), local), local)]
    /\ UNCHANGED <<rkind, ritems, rgrid, rstep, rresult, rout,
                   cvars, wvars, bvars, pvars, dvars, gvars>>

\* .reduce(.., |acc, e| acc + e) joins two neighbouring partial arrays
Combine(i) ==
    /\ rkind = "reduce" /\ rstep = "tasks"
    /\ i \in 1..(Len(rsegs) - 1)
    /\ rsegs[i].done /\ rsegs[i + 1].done
    /\ rsegs' = [k \in 1..(Len(rsegs) - 1) |->
                    IF k < i THEN rsegs[k]
                    ELSE IF k > i THEN rsegs[k + 1]
                    ELSE Segment(rsegs[i].lo, rsegs[i + 1].hi, TRUE,
                                 ReduceOp(rsegs[i].val, rsegs[i + 1].val),
                                 ExactPlus(rsegs[i].exact, rsegs[i + 1].exact))]
    /\ UNCHANGED <<rkind, ritems, rgrid, rstep, rresult, rout,
                   cvars, wvars, bvars, pvars, dvars, gvars>>

\* result += &kpoint_result, once the reduce has returned; the reduce of no
\* task at all returns the identity
AddToResult ==
    /\ rkind = "reduce" /\ rstep = "tasks"
    /\ Len(rsegs) = 0 \/ (Len(rsegs) = 1 /\ rsegs[1].done)
    /\ rresult' = ReduceOp(rresult, IF Len(rsegs) = 0 THEN FloatZeros(rgrid) ELSE rsegs[1].val)
    /\ rstep' = "added"
    /\ UNCHANGED <<rkind, ritems, rgrid, rsegs, rout, cvars, wvars, bvars, pvars, dvars, gvars>>

\* let sum: AngularChannels = angular_channels.into_iter().sum()
SumByValue ==
    /\ rkind = "sum" /\ rstep = "start"
    /\ rout' = <<SumOfChannels(ritems)>>
    /\ rstep' = "done"
    /\ UNCHANGED <<rkind, ritems, rgrid, rsegs, rresult, cvars, wvars, bvars, pvars, dvars, gvars>>

\* let sum_on_refs: AngularChannels = angular_channels.iter().sum()
SumByRef ==
    /\ rkind = "sum_refs" /\ rstep = "start"
    /\ rout' = <<SumOfChannelRefs(ritems)>>
    /\ rstep' = "done"
    /\ UNCHANGED <<rkind, ritems, rgrid, rsegs, rresult, cvars, wvars, bvars, pvars, dvars, gvars>>

ReduceNext ==
    \/ \E i \in 1..MaxTasks : TaskDone(i)
    \/ \E i \in 1..MaxTasks : Combine(i)
    \/ AddToResult
    \/ SumByValue
    \/ SumByRef

SpecReduce == ReduceInit /\ [][ReduceNext]_vars

---------------------------------------------------------------------------
(* Claims about the reduction and the sum, checked under SpecReduce.       *)

\* the local array of task e
LocalOf(e) == FloatLocal(ritems[e].factor_arr, ritems[e].am_weights)

\* the local arrays of the tasks lo..hi summed without rounding
RECURSIVE ExactLocals(_, _)
ExactLocals(lo, hi) ==
    IF lo > hi THEN FloatZeros(rgrid) ELSE ExactPlus(LocalOf(lo), ExactLocals(lo + 1, hi))

\* the reduce carried out as one fold in task order, from task e on
RECURSIVE FoldLocals(_, _)
FoldLocals(acc, e) ==
    IF e > Len(ritems) THEN acc ELSE FoldLocals(ReduceOp(acc, LocalOf(e)), e + 1)

\* x is the exact sum t of non-negative terms up to the rounding of n
\* additions: |x - t| <= t * ((1 + 2^-FloatBits)^n - 1)
WithinRounding(x, t, n) ==
    (IF x < t THEN t - x ELSE x - t) * Power(2, FloatBits * n)
        <= t * (Power(Power(2, FloatBits) + 1, n) - Power(2, FloatBits * n))

\* x is the sum t as exactly as floating point allows: t itself when no
\* partial sum can need rounding, and within the rounding of n additions
SumUpToRounding(x, t, n) ==
    /\ t <= Power(2, FloatBits) => x = t
    /\ WithinRounding(x, t, n)

\* Each task produces its own partial array only, the partial arrays are
\* joined by addition only, starting from zero, and the accumulation target
\* is not written before the reduce has returned
PartialsOnly ==
    /\ rstep = "tasks" => rresult = FloatZeros(rgrid)
    /\ \A i \in DOMAIN rsegs :
          /\ rsegs[i].lo = (IF i = 1 THEN 1 ELSE rsegs[i - 1].hi + 1)
          /\ i = Len(rsegs) => rsegs[i].hi = Len(ritems)
          /\ ~rsegs[i].done =>
                rsegs[i].lo = rsegs[i].hi /\ rsegs[i].val = FloatZeros(rgrid)
          /\ rsegs[i].done => rsegs[i].exact = ExactLocals(rsegs[i].lo, rsegs[i].hi)

(* C23: in the reduction over the eigenvalues of a k-point each task only  *)
(* produces its own partial 4 x grid array, the partial arrays are joined  *)
(* only by addition starting from zero, and no task writes the result      *)
(* array; for every completion order and grouping the result is the sum of *)
(* the local arrays up to floating-point rounding, and exactly that sum    *)
(* when no addition rounds.                                                *)
C23_ReductionUpToRounding ==
    rkind = "reduce" =>
        /\ PartialsOnly
        /\ rstep = "added" =>
              \A r \in 1..4 : \A j \in 1..rgrid :
                 SumUpToRounding(rresult[r][j], ExactLocals(1, Len(ritems))[r][j], Len(ritems))

\* a reduction of MaxTasks tasks whose grouping gave another result than
\* the fold in task order
C23_Witness ==
    /\ rkind = "reduce" /\ rstep = "added"
    /\ Len(ritems) = MaxTasks /\ rgrid >= 1
    /\ rresult # FoldLocals(FloatZeros(rgrid), 1)
    /\ C23_ReductionUpToRounding

(* C23 as stated: the same, and the result is the same for every           *)
(* completion order and every grouping of the tasks, the fold in task      *)
(* order among them.                                                       *)
C23_SameForEveryGrouping ==
    rkind = "reduce" =>
        /\ PartialsOnly
        /\ rstep = "added" => rresult = FoldLocals(FloatZeros(rgrid), 1)

\* the sum of channel r of a list without rounding, from the i-th element on
RECURSIVE ExactChannelSum(_, _, _)
ExactChannelSum(items, r, i) ==
    IF i > Len(items) THEN 0
    ELSE ChannelAt(items[i], r) + ExactChannelSum(items, r, i + 1)

\* the orderings of a list
Orderings(items) ==
    {[i \in DOMAIN items |-> items[q[i]]] :
        q \in {p \in [DOMAIN items -> DOMAIN items] :
                  \A a, b \in DOMAIN items : a # b => p[a] # p[b]}}

\* the sums of a list in every ordering and in every grouping into the sum
\* of a front part and the sum of the rest
Regrouped(items) ==
    {AngularChannelsAdd(SumOfChannels(SubSeq(l, 1, i)), SumOfChannels(SubSeq(l, i + 1, Len(l)))) :
        l \in Orderings(items), i \in 0..Len(items)}

(* C28: the sum of a list of AngularChannels, by value or by reference, is *)
(* the all-zero value for the empty list and otherwise the componentwise   *)
(* sum of s, p, d, f folded from zero; in every ordering and grouping of   *)
(* the list it is the componentwise sum up to floating-point rounding, and *)
(* exactly that sum when no addition rounds.                               *)
C28_SumUpToRounding ==
    (rkind \in {"sum", "sum_refs"} /\ rstep = "done") =>
        /\ ritems = <<>> => rout[1] = AngularChannelsZero
        /\ rout[1] = SumOfChannels(ritems)
        /\ rout[1] \in Regrouped(ritems)
        /\ \A x \in Regrouped(ritems) : \A r \in 1..4 :
              SumUpToRounding(ChannelAt(x, r), ExactChannelSum(ritems, r, 1), Len(ritems) + 1)

\* references to MaxTasks channels have been summed and another ordering or
\* grouping of the same list has another sum
C28_Witness ==
    /\ rkind = "sum_refs" /\ rstep = "done"
    /\ Len(ritems) = MaxTasks
    /\ \E x \in Regrouped(ritems) : x # rout[1]

(* C28 as stated: the same, and the sum is the same for every ordering and *)
(* grouping of the list.                                                   *)
C28_SameForEveryOrdering ==
    (rkind \in {"sum", "sum_refs"} /\ rstep = "done") =>
        /\ ritems = <<>> => rout[1] = AngularChannelsZero
        /\ rout[1] = SumOfChannels(ritems)
        /\ \A x \in Regrouped(ritems) : x = rout[1]

=============================================================================
